---------------------------- MODULE Spec2Model ----------------------------
(***************************************************************************)
(* Model of the traced linear-system solver engine (utils/solverLogic.js)  *)
(* and of its comparison layer (utils/compareAlgorithms.js).               *)
(*                                                                         *)
(* JavaScript numbers are modelled as extended rationals <<n, d>>:         *)
(*   d > 0, n # 0, gcd(|n|, d) = 1   a finite non-zero value n/d           *)
(*   <<0, 1>>, <<0, -1>>             +0 and -0                             *)
(*   <<1, 0>>, <<-1, 0>>             +Infinity and -Infinity               *)
(*   <<0, 0>>                        NaN                                   *)
(* with the IEEE-754 rules for the special values and exact arithmetic on  *)
(* the finite ones.  A finite value whose numerator or denominator is      *)
(* beyond the machine integers is <<s, N, D>>: its sign s (1 or -1) and    *)
(* the base-10000 digits N and D of |n| and d.  Arrays are objects of a heap, so that two fields      *)
(* holding the same array (aliases) are told apart from two equal copies.  *)
(***************************************************************************)
EXTENDS Integers, Sequences, FiniteSets, TLC

-----------------------------------------------------------------------------
(* Numbers *)

NaN == <<0, 0>>
PosInf == <<1, 0>>
NegInf == <<-1, 0>>
PosZero == <<0, 1>>
NegZero == <<0, -1>>

AbsInt(i) == IF i < 0 THEN -i ELSE i

RECURSIVE GCD(_, _)
GCD(a, b) == IF b = 0 THEN a ELSE GCD(b, a % b)

\* the number literal i
Num(i) == IF i = 0 THEN PosZero ELSE <<i, 1>>

\* the quotient n/d of two integers, d > 0, n # 0, in lowest terms
Frac(n, d) == LET g == GCD(AbsInt(n), d) IN <<n \div g, d \div g>>

\* the digits of the natural number i in base 10000, least significant first
RECURSIVE digits(_)
digits(i) == IF i = 0 THEN <<>> ELSE <<i % 10000>> \o digits(i \div 10000)

\* the natural number whose digits are a (at most three of them)
RECURSIVE valueOf(_)
valueOf(a) == IF a = <<>> THEN 0 ELSE Head(a) + 10000 * valueOf(Tail(a))

\* the digits a fit a machine integer: a < 21 * 10^8
fitsInt(a) == Len(a) <= 2 \/ (Len(a) = 3 /\ a[3] < 21)

\* a without its leading zero digits
RECURSIVE trim(_)
trim(a) == IF a # <<>> /\ a[Len(a)] = 0 THEN trim(SubSeq(a, 1, Len(a) - 1)) ELSE a

\* a + b + carry
RECURSIVE plus(_, _, _)
plus(a, b, carry) ==
    IF a = <<>> /\ b = <<>> THEN (IF carry = 0 THEN <<>> ELSE <<carry>>)
    ELSE LET sum == (IF a = <<>> THEN 0 ELSE Head(a))
                    + (IF b = <<>> THEN 0 ELSE Head(b)) + carry
         IN  <<sum % 10000>> \o plus(IF a = <<>> THEN <<>> ELSE Tail(a),
                                     IF b = <<>> THEN <<>> ELSE Tail(b),
                                     sum \div 10000)

\* a - b - borrow for a >= b + borrow, leading zeros kept
RECURSIVE minus(_, _, _)
minus(a, b, borrow) ==
    IF a = <<>> THEN <<>>
    ELSE LET diff == Head(a) - (IF b = <<>> THEN 0 ELSE Head(b)) - borrow
         IN  <<IF diff < 0 THEN diff + 10000 ELSE diff>>
             \o minus(Tail(a), IF b = <<>> THEN <<>> ELSE Tail(b),
                      IF diff < 0 THEN 1 ELSE 0)

RECURSIVE lessFrom(_, _, _)
lessFrom(a, b, i) ==
    IF i = 0 THEN FALSE
    ELSE IF a[i] # b[i] THEN a[i] < b[i]
    ELSE lessFrom(a, b, i - 1)

\* a < b
less(a, b) == IF Len(a) # Len(b) THEN Len(a) < Len(b) ELSE lessFrom(a, b, Len(a))

\* a * m + carry for one digit m
RECURSIVE timesDigit(_, _, _)
timesDigit(a, m, carry) ==
    IF a = <<>> THEN (IF carry = 0 THEN <<>> ELSE <<carry>>)
    ELSE LET product == Head(a) * m + carry
         IN  <<product % 10000>> \o timesDigit(Tail(a), m, product \div 10000)

\* a * b
RECURSIVE times(_, _)
times(a, b) ==
    IF a = <<>> \/ b = <<>> THEN <<>>
    ELSE trim(plus(timesDigit(a, Head(b), 0), <<0>> \o times(a, Tail(b)), 0))

\* the digit q of the quotient of cur by b, for cur < 10000 * b and b with a
\* leading digit of at least 5000: the estimate from the leading digits is
\* at most two too large
RECURSIVE quotientDigit(_, _, _)
quotientDigit(cur, b, estimate) ==
    IF less(cur, trim(timesDigit(b, estimate, 0)))
    THEN quotientDigit(cur, b, estimate - 1)
    ELSE estimate

leadingQuotient(cur, b) ==
    LET n == Len(b)
        top == (IF Len(cur) > n THEN cur[n + 1] ELSE 0) * 10000
               + (IF Len(cur) >= n THEN cur[n] ELSE 0)
    IN  IF top \div b[n] > 9999 THEN 9999 ELSE top \div b[n]

\* one step of the long division by b: the quotient so far gains the digit,
\* and cur gives up digit * b
divideDigit(cur, q, b, digit) ==
    [q |-> IF digit = 0 /\ q = <<>> THEN <<>> ELSE <<digit>> \o q,
     r |-> trim(minus(cur, timesDigit(b, digit, 0), 0))]

divideCurrent(cur, q, b) ==
    divideDigit(cur, q, b, quotientDigit(cur, b, leadingQuotient(cur, b)))

\* the next digit x of the dividend is brought down to the remainder above
bringDown(x, above, b) ==
    divideCurrent(IF x = 0 /\ above.r = <<>> THEN <<>> ELSE <<x>> \o above.r,
                  above.q, b)

\* long division of the digits i.. of a by b: quotient q and remainder r
RECURSIVE longDivision(_, _, _)
longDivision(a, b, i) ==
    IF i > Len(a) - Len(b) + 1
    THEN [q |-> <<>>, r |-> IF i > Len(a) THEN <<>> ELSE SubSeq(a, i, Len(a))]
    ELSE bringDown(a[i], longDivision(a, b, i + 1), b)

\* the quotient of a by b > 0; both are scaled so that the leading digit of
\* the divisor is at least 5000
quotient(a, b) ==
    LET scale == 10000 \div (b[Len(b)] + 1)
    IN  longDivision(timesDigit(a, scale, 0), timesDigit(b, scale, 0), 1).q

\* the remainder of a by b > 0
remainder(a, b) == IF less(a, b) THEN a ELSE trim(minus(a, times(quotient(a, b), b), 0))

\* the greatest common divisor of a and b, by Euclid's algorithm
RECURSIVE gcd(_, _)
gcd(a, b) == IF b = <<>> THEN a ELSE gcd(b, remainder(a, b))

isBig(x) == Len(x) = 3

\* the finite non-zero value N/D or -N/D in lowest terms, in machine integers
\* when both fit
canonical(neg, lowest) ==
    IF fitsInt(lowest[1]) /\ fitsInt(lowest[2])
    THEN <<IF neg THEN -valueOf(lowest[1]) ELSE valueOf(lowest[1]), valueOf(lowest[2])>>
    ELSE <<IF neg THEN -1 ELSE 1, lowest[1], lowest[2]>>

lowestTerms(neg, N, D, g) == canonical(neg, [i \in 1..2 |-> quotient(<<N, D>>[i], g)])

ratio(neg, N, D) == lowestTerms(neg, N, D, gcd(N, D))

\* the digits of |n| and of d of a finite value
parts(x) == IF isBig(x) THEN <<x[2], x[3]>>
            ELSE <<digits(AbsInt(x[1])), digits(AbsInt(x[2]))>>

\* the products l[i] * r[i]
products(l, r) == [i \in 1..Len(l) |-> times(l[i], r[i])]

\* x + y from the cross products <<nx * dy, ny * dx, dx * dy>> of their parts;
\* flip: the signs differ and |x| < |y|
sumOf(negx, negy, cross, flip) ==
    IF negx # negy /\ cross[1] = cross[2] THEN PosZero
    ELSE ratio(IF flip THEN negy ELSE negx,
               IF negx = negy THEN plus(cross[1], cross[2], 0)
               ELSE trim(minus(cross[IF flip THEN 2 ELSE 1],
                               cross[IF flip THEN 1 ELSE 2], 0)),
               cross[3])

addCross(negx, negy, cross) ==
    sumOf(negx, negy, cross, negx # negy /\ less(cross[1], cross[2]))

addParts(negx, negy, p, q) ==
    addCross(negx, negy, products(<<p[1], q[1], p[2]>>, <<q[2], p[2], q[2]>>))

\* x * y from the parts of x and y
ratioOf(neg, cross) == ratio(neg, cross[1], cross[2])
mulParts(neg, p, q) == ratioOf(neg, products(p, q))

\* x / y from the parts of x and y
divParts(neg, p, q) == ratioOf(neg, products(p, <<q[2], q[1]>>))

\* |x| < |y|, or |y| < |x| if swap, from the parts of x and y
lessCross(swap, cross) == less(cross[IF swap THEN 2 ELSE 1], cross[IF swap THEN 1 ELSE 2])
ltParts(swap, p, q) == lessCross(swap, products(<<p[1], q[1]>>, <<q[2], p[2]>>))

\* no product of two parts of x and y, and no sum of two such products, leaves
\* the machine integers
native(x) == ~isBig(x) /\ AbsInt(x[1]) <= 30000 /\ AbsInt(x[2]) <= 30000

IsNaN(x) == x = NaN
IsInf(x) == ~isBig(x) /\ x[2] = 0 /\ x[1] # 0
IsZero(x) == x[1] = 0 /\ x[2] # 0
IsFinite(x) == isBig(x) \/ x[2] # 0

\* the sign bit of a number that is not NaN
IsNegative(x) == x[1] < 0 \/ (x[1] = 0 /\ x[2] < 0)

SignedZero(neg) == IF neg THEN NegZero ELSE PosZero
SignedInf(neg) == IF neg THEN NegInf ELSE PosInf

\* unary minus
Neg(x) ==
    IF IsNaN(x) THEN NaN
    ELSE IF IsZero(x) THEN <<0, -x[2]>>
    ELSE IF isBig(x) THEN <<-x[1], x[2], x[3]>>
    ELSE <<-x[1], x[2]>>

\* x + y
Add(x, y) ==
    IF IsNaN(x) \/ IsNaN(y) THEN NaN
    ELSE IF IsInf(x) THEN (IF IsInf(y) /\ x # y THEN NaN ELSE x)
    ELSE IF IsInf(y) THEN y
    ELSE IF IsZero(x) /\ IsZero(y) THEN SignedZero(IsNegative(x) /\ IsNegative(y))
    ELSE IF IsZero(x) THEN y
    ELSE IF IsZero(y) THEN x
    ELSE IF native(x) /\ native(y)
    THEN LET g == GCD(x[2], y[2])
             n == x[1] * (y[2] \div g) + y[1] * (x[2] \div g)
         IN  IF n = 0 THEN PosZero ELSE Frac(n, (x[2] \div g) * y[2])
    ELSE addParts(IsNegative(x), IsNegative(y), parts(x), parts(y))

\* x - y
Sub(x, y) == Add(x, Neg(y))

\* x * y
Mul(x, y) ==
    IF IsNaN(x) \/ IsNaN(y) THEN NaN
    ELSE LET neg == IsNegative(x) # IsNegative(y)
         IN  IF IsInf(x) \/ IsInf(y)
             THEN (IF IsZero(x) \/ IsZero(y) THEN NaN ELSE SignedInf(neg))
             ELSE IF IsZero(x) \/ IsZero(y) THEN SignedZero(neg)
             ELSE IF native(x) /\ native(y)
             THEN LET g1 == GCD(AbsInt(x[1]), y[2])
                      g2 == GCD(AbsInt(y[1]), x[2])
                  IN  <<(x[1] \div g1) * (y[1] \div g2),
                        (x[2] \div g2) * (y[2] \div g1)>>
             ELSE mulParts(neg, parts(x), parts(y))

\* x / y
Div(x, y) ==
    IF IsNaN(x) \/ IsNaN(y) THEN NaN
    ELSE LET neg == IsNegative(x) # IsNegative(y)
         IN  IF IsInf(x) THEN (IF IsInf(y) THEN NaN ELSE SignedInf(neg))
             ELSE IF IsInf(y) THEN SignedZero(neg)
             ELSE IF IsZero(y) THEN (IF IsZero(x) THEN NaN ELSE SignedInf(neg))
             ELSE IF IsZero(x) THEN SignedZero(neg)
             ELSE IF ~(native(x) /\ native(y))
             THEN divParts(neg, parts(x), parts(y))
             ELSE LET g1 == GCD(AbsInt(x[1]), AbsInt(y[1]))
                      g2 == GCD(x[2], y[2])
                      n == (AbsInt(x[1]) \div g1) * (y[2] \div g2)
                      d == (x[2] \div g2) * (AbsInt(y[1]) \div g1)
                  IN  <<IF neg THEN -n ELSE n, d>>

\* Math.abs(x)
Abs(x) == IF IsNaN(x) THEN NaN ELSE IF IsNegative(x) THEN Neg(x) ELSE x

RECURSIVE LtPos(_, _, _, _)
\* a/b < c/d for a, c >= 0 and b, d > 0, by their continued fractions
\* (no product is formed, so none overflows)
LtPos(a, b, c, d) ==
    IF a \div b # c \div d THEN a \div b < c \div d
    ELSE IF a % b = 0 THEN c % d # 0
    ELSE IF c % d = 0 THEN FALSE
    ELSE LtPos(d, c % d, b, a % b)

\* x < y : false when either is NaN, and -0 is not below +0
Lt(x, y) ==
    IF IsNaN(x) \/ IsNaN(y) THEN FALSE
    ELSE IF IsInf(x) THEN x = NegInf /\ y # NegInf
    ELSE IF IsInf(y) THEN y = PosInf
    ELSE IF isBig(x) \/ isBig(y)
    THEN IF IsNegative(x) # IsNegative(y) THEN IsNegative(x)
         ELSE ltParts(IsNegative(x), parts(x), parts(y))
    ELSE IF x[1] < 0 /\ y[1] < 0 THEN LtPos(-y[1], y[2], -x[1], x[2])
    ELSE IF x[1] < 0 \/ y[1] < 0 THEN x[1] < 0
    ELSE LtPos(x[1], AbsInt(x[2]), y[1], AbsInt(y[2]))

\* x > y
Gt(x, y) == Lt(y, x)

\* x === y on numbers: NaN equals nothing, -0 equals +0
NumEq(x, y) ==
    /\ ~IsNaN(x)
    /\ ~IsNaN(y)
    /\ (x = y \/ (IsZero(x) /\ IsZero(y)))

\* Math.pow(x, 2)
Square(x) == Mul(x, x)

\* Math.sqrt(s), kept as the surd of s: its value is decided only through
\* comparisons (SqrtLt), which are exact
Sqrt(s) == [sqrt |-> s]

\* Math.sqrt(s) <= t : the comparison were it not strict
SqrtLe(e, t) ==
    LET s == e.sqrt
    IN  IF IsNaN(s) \/ IsNaN(t) THEN FALSE
        ELSE IF IsInf(t) THEN t = PosInf
        ELSE IF IsInf(s) THEN FALSE
        ELSE ~IsNegative(t) /\ ~Lt(Square(t), s)

\* Math.sqrt(s) < t  for an s that is a sum of squares (>= 0, +Infinity or NaN)
SqrtLt(e, t) ==
    LET s == e.sqrt
    IN  IF IsNaN(s) \/ IsNaN(t) THEN FALSE
        ELSE IF IsInf(s) THEN FALSE
        ELSE IF IsInf(t) THEN t = PosInf
        ELSE Gt(t, PosZero) /\ Lt(s, Square(t))

-----------------------------------------------------------------------------
(* Arrays: a heap of array objects; a reference is an index of the heap.   *)
(* A matrix is an array of references to its rows.  Source indices are     *)
(* 0-based and kept so; element i of an array a is a[i + 1].               *)

VARIABLES
    heap,       \* the array objects allocated so far
    matrix,     \* reference of the caller's matrix
    vector,     \* reference of the caller's vector
    pc,         \* "input", then "returned" and "mutated", or "compared" and "ranked"
    call,       \* the call made: method, tolerance, maxIter
    result,     \* the value the call returned
    returned,   \* the contents of result when the call returned
    touched,    \* what the caller wrote to after the call
    comparison, \* the value compareAllMethods returned
    ranking,    \* the value getRanking returned
    method,     \* the method selected in the App
    steps,      \* the result the App displays (noResult: null, no trace loaded)
    currentStepIndex,   \* the step of the trace displayed
    isPlaying,  \* whether the playback runs
    speed,      \* ms per step
    interval    \* the timer of the animation effect, with the trace it closed over

\* the state of the display
display == <<method, steps, currentStepIndex, isPlaying, speed, interval>>

vars == <<heap, matrix, vector, pc, call, result, returned, touched,
          comparison, ranking, display>>

\* a new array holding elems
alloc(h, elems) == [heap |-> Append(h, elems), ref |-> Len(h) + 1]

\* a[i] and m[i][j]
at(h, a, i) == h[a][i + 1]
at2(h, m, i, j) == h[h[m][i + 1]][j + 1]

\* a[i] = v and m[i][j] = v
store(h, a, i, v) == [h EXCEPT ![a][i + 1] = v]
store2(h, m, i, j, v) == [h EXCEPT ![h[m][i + 1]][j + 1] = v]

\* a function on 1..n as a sequence
seq(f) == <<>> \o f

\* new Array(n).fill(0)
zeros(n) == seq([i \in 1..n |-> PosZero])

\* the contents of a vector and of a matrix
vectorOf(h, v) == h[v]
matrixOf(h, m) == seq([r \in 1..Len(h[m]) |-> h[h[m][r]]])

\* const copyVector = (v) => [...v]
copyVector(h, v) == alloc(h, h[v])

\* const copyMatrix = (m) => m.map(row => [...row]) : a new array of new rows
copyMatrix(h, m) ==
    LET n == Len(h[m])
        rows == [r \in 1..n |-> h[h[m][r]]]
        outer == seq([r \in 1..n |-> Len(h) + r])
    IN  [heap |-> Append(h \o rows, outer), ref |-> Len(h) + n + 1]

-----------------------------------------------------------------------------
(* The trace.  A Step is [matrix, vector, description, highlights] with    *)
(* matrix and vector references; an iterative step adds xCurrent and (from *)
(* the first iteration on) errorHistory.  A description is modelled by its *)
(* template and the indices it prints; highlights by its rows and cells    *)
(* (absent fields are empty).                                              *)

noHighlights == [rows |-> <<>>, cells |-> <<>>]

\* steps.push({matrix: copyMatrix(A), vector: copyVector(b), description, highlights})
\* st is the solver's local state: heap, steps, A, b, x
pushStep(st, description, highlights) ==
    LET cm == copyMatrix(st.heap, st.A)
        cv == copyVector(cm.heap, st.b)
    IN  [st EXCEPT !.heap = cv.heap,
                   !.steps = Append(@, [matrix |-> cm.ref, vector |-> cv.ref,
                                        description |-> description,
                                        highlights |-> highlights])]

\* the prologue were it to work on the caller's arrays: let A = matrix; let b = vector;
enterDirectInPlace(h, m, v) ==
    [heap |-> h, steps |-> <<>>, A |-> m, b |-> v, x |-> 0]

\* let A = copyMatrix(matrix); let b = copyVector(vector); let steps = [];
enterDirect(h, m, v) ==
    LET cm == copyMatrix(h, m)
        cv == copyVector(cm.heap, v)
    IN  [heap |-> cv.heap, steps |-> <<>>, A |-> cm.ref, b |-> cv.ref, x |-> 0]

size(st) == Len(st.heap[st.A])

\* the row update were its loop to start after the pivot column: for (j = k + 1; ...)
subtractRowPastPivot(h, A, b, k, i, factor) ==
    LET n == Len(h[A])
        rowI == h[A][i + 1]
        newRow == seq([c \in 1..n |->
                         IF c - 1 > k
                         THEN Sub(at2(h, A, i, c - 1), Mul(factor, at2(h, A, k, c - 1)))
                         ELSE at2(h, A, i, c - 1)])
        h1 == [h EXCEPT ![rowI] = newRow]
    IN  store(h1, b, i, Sub(at(h1, b, i), Mul(factor, at(h1, b, k))))

\* for (j = k; j < n; j++) A[i][j] = A[i][j] - factor * A[k][j];  b[i] = b[i] - factor * b[k];
\* (i # k, so row k is only read)
subtractRow(h, A, b, k, i, factor) ==
    LET n == Len(h[A])
        rowI == h[A][i + 1]
        newRow == seq([c \in 1..n |->
                         IF c - 1 >= k
                         THEN Sub(at2(h, A, i, c - 1), Mul(factor, at2(h, A, k, c - 1)))
                         ELSE at2(h, A, i, c - 1)])
        h1 == [h EXCEPT ![rowI] = newRow]
    IN  store(h1, b, i, Sub(at(h1, b, i), Mul(factor, at(h1, b, k))))

\* the body were it to record its step after the update of row i
eliminateRowRecordedAfter(st, k, i) ==
    LET factor == Div(at2(st.heap, st.A, i, k), at2(st.heap, st.A, k, k))
    IN  pushStep([st EXCEPT !.heap = subtractRow(st.heap, st.A, st.b, k, i, factor)],
                 [kind |-> "eliminate", i |-> i, k |-> k],
                 [rows |-> <<i, k>>, cells |-> << <<i, k>> >>])

\* the body were it to pass over a row whose entry in column k is zero already
eliminateRowUnlessZero(st, k, i) ==
    IF IsZero(at2(st.heap, st.A, i, k)) THEN st
    ELSE LET factor == Div(at2(st.heap, st.A, i, k), at2(st.heap, st.A, k, k))
             s1 == pushStep(st, [kind |-> "eliminate", i |-> i, k |-> k],
                            [rows |-> <<i, k>>, cells |-> << <<i, k>> >>])
         IN  [s1 EXCEPT !.heap = subtractRow(s1.heap, s1.A, s1.b, k, i, factor)]

\* the body of  for (i = k + 1; i < n; i++)  of the two Gauss eliminations
eliminateRow(st, k, i) ==
    LET factor == Div(at2(st.heap, st.A, i, k), at2(st.heap, st.A, k, k))
        s1 == pushStep(st, [kind |-> "eliminate", i |-> i, k |-> k],
                       [rows |-> <<i, k>>, cells |-> << <<i, k>> >>])
    IN  [s1 EXCEPT !.heap = subtractRow(s1.heap, s1.A, s1.b, k, i, factor)]

RECURSIVE eliminateDownTo(_, _, _)
\* for (let i = n - 1; i > k; i--) { ... }, entered at i
eliminateDownTo(st, k, i) ==
    IF i > k THEN eliminateDownTo(eliminateRow(st, k, i), k, i - 1) ELSE st

\* the loop were it to take the rows below the pivot from the last one upwards
eliminateBelowDescending(st, k, i) == eliminateDownTo(st, k, size(st) - 1)

RECURSIVE eliminateBelow(_, _, _)
\* for (let i = k + 1; i < n; i++) { ... }, entered at i
eliminateBelow(st, k, i) ==
    IF i < size(st) THEN eliminateBelow(eliminateRow(st, k, i), k, i + 1) ELSE st

RECURSIVE rowSum(_, _, _, _, _, _)
\* for (let j = i + 1; j < n; j++) sum += A[i][j] * x[j];  entered at j
rowSum(h, A, x, i, j, sum) ==
    IF j < Len(h[A])
    THEN rowSum(h, A, x, i, j + 1, Add(sum, Mul(at2(h, A, i, j), at(h, x, j))))
    ELSE sum

RECURSIVE backSubstituteFrom(_, _)
\* for (let i = n - 1; i >= 0; i--) { ... }, entered at i
backSubstituteFrom(st, i) ==
    IF i >= 0
    THEN LET sum == rowSum(st.heap, st.A, st.x, i, i + 1, PosZero)
             xi == Div(Sub(at(st.heap, st.b, i), sum), at2(st.heap, st.A, i, i))
             s1 == [st EXCEPT !.heap = store(st.heap, st.x, i, xi)]
         IN  backSubstituteFrom(
                 pushStep(s1, [kind |-> "solve", i |-> i],
                          [rows |-> <<i>>, cells |-> <<>>]),
                 i - 1)
    ELSE st

\* 2. Back Substitution
backSubstitution(st) ==
    LET n == size(st)
        ax == alloc(st.heap, zeros(n))
        s1 == pushStep([st EXCEPT !.heap = ax.heap, !.x = ax.ref],
                       [kind |-> "backsub"], noHighlights)
    IN  backSubstituteFrom(s1, n - 1)

RECURSIVE gaussForward(_, _)
\* 1. Forward Elimination (NO PIVOTING): for (let k = 0; k < n; k++), entered at k
gaussForward(st, k) ==
    IF k < size(st)
    THEN LET s1 == pushStep(st, [kind |-> "pivot", k |-> k],
                            [rows |-> <<>>, cells |-> << <<k, k>> >>])
         IN  gaussForward(eliminateBelow(s1, k, k + 1), k + 1)
    ELSE st

\* export const solveGaussElimination = (matrix, vector) => ...
\* gives the heap after the call and the returned object
solveGaussElimination(h, m, v) ==
    LET s0 == pushStep(enterDirect(h, m, v), [kind |-> "start"], noHighlights)
        s1 == backSubstitution(gaussForward(s0, 0))
    IN  [heap |-> s1.heap,
         value |-> [steps |-> s1.steps, solution |-> s1.x, type |-> "direct"]]

RECURSIVE findPivotRowSigned(_, _, _, _, _)
\* the search for the pivot row were it to compare the entries, not their magnitudes
findPivotRowSigned(h, A, k, i, pivotRow) ==
    IF i < Len(h[A])
    THEN findPivotRowSigned(h, A, k, i + 1,
                            IF Gt(at2(h, A, i, k), at2(h, A, pivotRow, k))
                            THEN i ELSE pivotRow)
    ELSE pivotRow

RECURSIVE findPivotRowLatest(_, _, _, _, _)
\* the search were a later row to replace the candidate when not smaller:
\* if (Math.abs(A[i][k]) >= Math.abs(A[pivotRow][k])) pivotRow = i;
findPivotRowLatest(h, A, k, i, pivotRow) ==
    IF i < Len(h[A])
    THEN findPivotRowLatest(h, A, k, i + 1,
                            IF ~Lt(Abs(at2(h, A, i, k)), Abs(at2(h, A, pivotRow, k)))
                            THEN i ELSE pivotRow)
    ELSE pivotRow

RECURSIVE findPivotRow(_, _, _, _, _)
\* let pivotRow = k; for (let i = k + 1; i < n; i++)
\*     if (Math.abs(A[i][k]) > Math.abs(A[pivotRow][k])) pivotRow = i;   entered at i
findPivotRow(h, A, k, i, pivotRow) ==
    IF i < Len(h[A])
    THEN findPivotRow(h, A, k, i + 1,
                      IF Gt(Abs(at2(h, A, i, k)), Abs(at2(h, A, pivotRow, k)))
                      THEN i ELSE pivotRow)
    ELSE pivotRow

\* the swap were it to leave b as it is
swapRowsOfMatrixOnly(h, A, b, k, pivotRow) ==
    [h EXCEPT ![A] = [@ EXCEPT ![k + 1] = h[A][pivotRow + 1],
                               ![pivotRow + 1] = h[A][k + 1]]]

\* [A[k], A[pivotRow]] = [A[pivotRow], A[k]]; [b[k], b[pivotRow]] = [b[pivotRow], b[k]];
\* the rows change place in A, the row objects are not copied
swapRows(h, A, b, k, pivotRow) ==
    [h EXCEPT ![A] = [@ EXCEPT ![k + 1] = h[A][pivotRow + 1],
                               ![pivotRow + 1] = h[A][k + 1]],
              ![b] = [@ EXCEPT ![k + 1] = h[b][pivotRow + 1],
                               ![pivotRow + 1] = h[b][k + 1]]]

\* Find pivot row; Swap rows if necessary; Record step: Pivot Selection
selectPivot(st, k) ==
    LET pivotRow == findPivotRow(st.heap, st.A, k, k + 1, k)
        s1 == IF pivotRow # k
              THEN pushStep([st EXCEPT !.heap = swapRows(st.heap, st.A, st.b, k, pivotRow)],
                            [kind |-> "swap", k |-> k, pivotRow |-> pivotRow],
                            [rows |-> <<k, pivotRow>>, cells |-> <<>>])
              ELSE st
    IN  pushStep(s1, [kind |-> "pivot", k |-> k],
                 [rows |-> <<>>, cells |-> << <<k, k>> >>])

RECURSIVE pivotingForward(_, _)
\* 1. Forward Elimination with Pivoting: for (let k = 0; k < n; k++), entered at k
pivotingForward(st, k) ==
    IF k < size(st)
    THEN pivotingForward(eliminateBelow(selectPivot(st, k), k, k + 1), k + 1)
    ELSE st

\* export const solveGaussEliminationWithPivoting = (matrix, vector) => ...
solveGaussEliminationWithPivoting(h, m, v) ==
    LET s0 == pushStep(enterDirect(h, m, v), [kind |-> "start"], noHighlights)
        s1 == backSubstitution(pivotingForward(s0, 0))
    IN  [heap |-> s1.heap,
         value |-> [steps |-> s1.steps, solution |-> s1.x, type |-> "direct"]]

\* a normalisation that divides the pivot row of A and leaves b[k] as it was
normalizeRowOfMatrixOnly(st, k) ==
    LET h == st.heap
        n == size(st)
        pivotValue == at2(h, st.A, k, k)
        newRow == seq([c \in 1..n |->
                         IF c - 1 >= k THEN Div(at2(h, st.A, k, c - 1), pivotValue)
                         ELSE at2(h, st.A, k, c - 1)])
        h1 == [h EXCEPT ![h[st.A][k + 1]] = newRow]
    IN  pushStep([st EXCEPT !.heap = h1], [kind |-> "normalize", k |-> k],
                 [rows |-> <<k>>, cells |-> <<>>])

\* Normalize pivot row: let pivotValue = A[k][k];
\* for (j = k; j < n; j++) A[k][j] = A[k][j] / pivotValue;  b[k] = b[k] / pivotValue;
normalizeRow(st, k) ==
    LET h == st.heap
        n == size(st)
        pivotValue == at2(h, st.A, k, k)
        newRow == seq([c \in 1..n |->
                         IF c - 1 >= k THEN Div(at2(h, st.A, k, c - 1), pivotValue)
                         ELSE at2(h, st.A, k, c - 1)])
        h1 == [h EXCEPT ![h[st.A][k + 1]] = newRow]
        h2 == store(h1, st.b, k, Div(at(h1, st.b, k), pivotValue))
    IN  pushStep([st EXCEPT !.heap = h2], [kind |-> "normalize", k |-> k],
                 [rows |-> <<k>>, cells |-> <<>>])

RECURSIVE eliminateColumnBelow(_, _, _)
\* the elimination of column k were it to leave the rows above the pivot alone
eliminateColumnBelow(st, k, i) ==
    IF i < size(st)
    THEN IF i > k
         THEN LET factor == at2(st.heap, st.A, i, k)
                  s1 == pushStep(st, [kind |-> "eliminate", i |-> i, k |-> k],
                                 [rows |-> <<i, k>>, cells |-> << <<i, k>> >>])
              IN  eliminateColumnBelow(
                      [s1 EXCEPT !.heap = subtractRow(s1.heap, s1.A, s1.b, k, i, factor)],
                      k, i + 1)
         ELSE eliminateColumnBelow(st, k, i + 1)
    ELSE st

RECURSIVE eliminateColumn(_, _, _)
\* Eliminate column (both above and below pivot): for (let i = 0; i < n; i++) if (i !== k) {...}
eliminateColumn(st, k, i) ==
    IF i < size(st)
    THEN IF i # k
         THEN LET factor == at2(st.heap, st.A, i, k)
                  s1 == pushStep(st, [kind |-> "eliminate", i |-> i, k |-> k],
                                 [rows |-> <<i, k>>, cells |-> << <<i, k>> >>])
              IN  eliminateColumn(
                      [s1 EXCEPT !.heap = subtractRow(s1.heap, s1.A, s1.b, k, i, factor)],
                      k, i + 1)
         ELSE eliminateColumn(st, k, i + 1)
    ELSE st

RECURSIVE jordanReduce(_, _)
\* 1. Forward and Backward Elimination (to RREF): for (let k = 0; k < n; k++), entered at k
jordanReduce(st, k) ==
    IF k < size(st)
    THEN jordanReduce(eliminateColumn(normalizeRow(selectPivot(st, k), k), k, 0), k + 1)
    ELSE st

\* export const solveGaussJordan = (matrix, vector) => ...
solveGaussJordan(h, m, v) ==
    LET s1 == jordanReduce(enterDirect(h, m, v), 0)
        \* let x = new Array(n).fill(0); for (i...) x[i] = b[i];
        ax == alloc(s1.heap, seq([i \in 1..size(s1) |-> at(s1.heap, s1.b, i - 1)]))
        s2 == pushStep([s1 EXCEPT !.heap = ax.heap, !.x = ax.ref],
                       [kind |-> "rref"], noHighlights)
    IN  [heap |-> s2.heap,
         value |-> [steps |-> s2.steps, solution |-> s2.x, type |-> "direct"]]

RECURSIVE pivotingBefore(_, _, _)
\* the local state of solveGaussEliminationWithPivoting when its loop enters
\* iteration k = stage (the loop run from k, stopped there)
pivotingBefore(st, k, stage) ==
    IF k < stage
    THEN pivotingBefore(eliminateBelow(selectPivot(st, k), k, k + 1), k + 1, stage)
    ELSE st

RECURSIVE jordanBefore(_, _, _)
\* the local state of solveGaussJordan when its loop enters iteration k = stage
jordanBefore(st, k, stage) ==
    IF k < stage
    THEN jordanBefore(eliminateColumn(normalizeRow(selectPivot(st, k), k), k, 0),
                      k + 1, stage)
    ELSE st

-----------------------------------------------------------------------------
(* Iterative solvers.  it is the local state: heap, steps, x, errors, with *)
(* x and errors references; matrix and vector are the caller's own arrays. *)

\* let x = new Array(n).fill(0); let steps = []; let errors = [];
\* steps.push({matrix: matrix, vector: vector, xCurrent: [...x], ...})
enterIterative(h, m, v) ==
    LET ax == alloc(h, zeros(Len(h[m])))
        ae == alloc(ax.heap, <<>>)
        ac == copyVector(ae.heap, ax.ref)
    IN  [heap |-> ac.heap, x |-> ax.ref, errors |-> ae.ref,
         steps |-> << [matrix |-> m, vector |-> v, xCurrent |-> ac.ref,
                       description |-> [kind |-> "guess"],
                       highlights |-> noHighlights] >>]

RECURSIVE jacobiSum(_, _, _, _, _, _)
\* for (let j = 0; j < n; j++) if (i !== j) sum += matrix[i][j] * x[j];   entered at j
jacobiSum(h, m, x, i, j, sum) ==
    IF j < Len(h[m])
    THEN jacobiSum(h, m, x, i, j + 1,
                   IF i # j THEN Add(sum, Mul(at2(h, m, i, j), at(h, x, j))) ELSE sum)
    ELSE sum

RECURSIVE jacobiSweepInPlace(_, _, _, _, _, _)
\* the sweep were it to read the vector it is writing
jacobiSweepInPlace(h, m, v, x, xNew, i) ==
    IF i < Len(h[m])
    THEN LET sum == jacobiSum(h, m, xNew, i, 0, PosZero)
         IN  jacobiSweepInPlace(
                 store(h, xNew, i, Div(Sub(at(h, v, i), sum), at2(h, m, i, i))),
                 m, v, x, xNew, i + 1)
    ELSE h

RECURSIVE jacobiSweep(_, _, _, _, _, _)
\* for (let i = 0; i < n; i++) { ...; xNew[i] = (vector[i] - sum) / matrix[i][i]; }
jacobiSweep(h, m, v, x, xNew, i) ==
    IF i < Len(h[m])
    THEN LET sum == jacobiSum(h, m, x, i, 0, PosZero)
         IN  jacobiSweep(store(h, xNew, i, Div(Sub(at(h, v, i), sum), at2(h, m, i, i))),
                         m, v, x, xNew, i + 1)
    ELSE h

\* the sum were it to read the previous iteration's vector for every j
seidelSumStale(h, m, x, xNew, i, j, sum) == jacobiSum(h, m, x, i, j, sum)

RECURSIVE seidelSum(_, _, _, _, _, _, _)
\* for (let j = 0; j < n; j++) if (j !== i) {
\*     if (j < i) sum += matrix[i][j] * xNew[j]; else sum += matrix[i][j] * x[j]; }
seidelSum(h, m, x, xNew, i, j, sum) ==
    IF j < Len(h[m])
    THEN seidelSum(h, m, x, xNew, i, j + 1,
                   IF j # i
                   THEN (IF j < i
                         THEN Add(sum, Mul(at2(h, m, i, j), at(h, xNew, j)))
                         ELSE Add(sum, Mul(at2(h, m, i, j), at(h, x, j))))
                   ELSE sum)
    ELSE sum

RECURSIVE seidelSweepUndivided(_, _, _, _, _, _)
\* the sweep were it to leave out the division:  xNew[i] = vector[i] - sum
seidelSweepUndivided(h, m, v, x, xNew, i) ==
    IF i < Len(h[m])
    THEN LET sum == seidelSum(h, m, x, xNew, i, 0, PosZero)
         IN  seidelSweepUndivided(store(h, xNew, i, Sub(at(h, v, i), sum)),
                                  m, v, x, xNew, i + 1)
    ELSE h

RECURSIVE seidelSweep(_, _, _, _, _, _)
\* for (let i = 0; i < n; i++) { ...; xNew[i] = (vector[i] - sum) / matrix[i][i]; }
seidelSweep(h, m, v, x, xNew, i) ==
    IF i < Len(h[m])
    THEN LET sum == seidelSum(h, m, x, xNew, i, 0, PosZero)
         IN  seidelSweep(store(h, xNew, i, Div(Sub(at(h, v, i), sum), at2(h, m, i, i))),
                         m, v, x, xNew, i + 1)
    ELSE h

RECURSIVE errorSumFrom(_, _, _, _, _)
\* for (let i = 0; i < n; i++) errorSum += Math.pow(xNew[i] - x[i], 2);   entered at i
errorSumFrom(h, x, xNew, i, errorSum) ==
    IF i < Len(h[x])
    THEN errorSumFrom(h, x, xNew, i + 1,
                      Add(errorSum, Square(Sub(at(h, xNew, i), at(h, x, i)))))
    ELSE errorSum

\* the rest of an iteration were its step to hold errors itself: errorHistory: errors
recordIterationSharingErrors(it, m, v, xNew, iter) ==
    LET error == Sqrt(errorSumFrom(it.heap, it.x, xNew, 0, PosZero))
        h1 == [it.heap EXCEPT ![it.errors] = Append(@, error)]
        ac == copyVector(h1, xNew)
        ax == copyVector(ac.heap, xNew)
    IN  [it EXCEPT !.heap = ax.heap,
                   !.x = ax.ref,
                   !.steps = Append(@, [matrix |-> m, vector |-> v,
                                        xCurrent |-> ac.ref,
                                        description |-> [kind |-> "iteration",
                                                         iter |-> iter + 1],
                                        highlights |-> noHighlights,
                                        errorHistory |-> it.errors])]

\* the rest of an iteration were it to leave out  x = [...xNew]
recordIterationKeepingX(it, m, v, xNew, iter) ==
    LET error == Sqrt(errorSumFrom(it.heap, it.x, xNew, 0, PosZero))
        h1 == [it.heap EXCEPT ![it.errors] = Append(@, error)]
        ac == copyVector(h1, xNew)
        ah == copyVector(ac.heap, it.errors)
    IN  [it EXCEPT !.heap = ah.heap,
                   !.steps = Append(@, [matrix |-> m, vector |-> v,
                                        xCurrent |-> ac.ref,
                                        description |-> [kind |-> "iteration",
                                                         iter |-> iter + 1],
                                        highlights |-> noHighlights,
                                        errorHistory |-> ah.ref])]

\* the rest of an iteration once xNew is computed: the error, errors.push(error),
\* steps.push({..., xCurrent: [...xNew], errorHistory: [...errors]}), x = [...xNew]
recordIteration(it, m, v, xNew, iter) ==
    LET error == Sqrt(errorSumFrom(it.heap, it.x, xNew, 0, PosZero))
        h1 == [it.heap EXCEPT ![it.errors] = Append(@, error)]
        ac == copyVector(h1, xNew)
        ah == copyVector(ac.heap, it.errors)
        ax == copyVector(ah.heap, xNew)
    IN  [it EXCEPT !.heap = ax.heap,
                   !.x = ax.ref,
                   !.steps = Append(@, [matrix |-> m, vector |-> v,
                                        xCurrent |-> ac.ref,
                                        description |-> [kind |-> "iteration",
                                                         iter |-> iter + 1],
                                        highlights |-> noHighlights,
                                        errorHistory |-> ah.ref])]

\* the error of the iteration just recorded
lastError(it) == LET e == it.heap[it.errors] IN e[Len(e)]

RECURSIVE jacobiLoop(_, _, _, _, _, _)
\* for (let iter = 0; iter < maxIter; iter++) { ... }, entered at iter
jacobiLoop(it, m, v, tolerance, maxIter, iter) ==
    IF iter < maxIter
    THEN LET an == alloc(it.heap, zeros(Len(it.heap[m])))
             h1 == jacobiSweep(an.heap, m, v, it.x, an.ref, 0)
             i1 == recordIteration([it EXCEPT !.heap = h1], m, v, an.ref, iter)
         IN  IF SqrtLt(lastError(i1), tolerance)
             THEN [heap |-> i1.heap,
                   value |-> [steps |-> i1.steps, solution |-> i1.x,
                              converged |-> TRUE, type |-> "iterative"]]
             ELSE jacobiLoop(i1, m, v, tolerance, maxIter, iter + 1)
    ELSE [heap |-> it.heap,
          value |-> [steps |-> it.steps, solution |-> it.x,
                     converged |-> FALSE, type |-> "iterative"]]

\* export const solveJacobi = (matrix, vector, tolerance = 0.001, maxIter = 50) => ...
solveJacobi(h, m, v, tolerance, maxIter) ==
    jacobiLoop(enterIterative(h, m, v), m, v, tolerance, maxIter, 0)

RECURSIVE seidelLoop(_, _, _, _, _, _)
\* for (let iter = 0; iter < maxIter; iter++) { ... }, entered at iter
seidelLoop(it, m, v, tolerance, maxIter, iter) ==
    IF iter < maxIter
    THEN LET an == copyVector(it.heap, it.x)
             h1 == seidelSweep(an.heap, m, v, it.x, an.ref, 0)
             i1 == recordIteration([it EXCEPT !.heap = h1], m, v, an.ref, iter)
         IN  IF SqrtLt(lastError(i1), tolerance)
             THEN [heap |-> i1.heap,
                   value |-> [steps |-> i1.steps, solution |-> i1.x,
                              converged |-> TRUE, type |-> "iterative"]]
             ELSE seidelLoop(i1, m, v, tolerance, maxIter, iter + 1)
    ELSE [heap |-> it.heap,
          value |-> [steps |-> it.steps, solution |-> it.x,
                     converged |-> FALSE, type |-> "iterative"]]

\* export const solveGaussSeidel = (matrix, vector, tolerance = 0.001, maxIter = 50) => ...
solveGaussSeidel(h, m, v, tolerance, maxIter) ==
    seidelLoop(enterIterative(h, m, v), m, v, tolerance, maxIter, 0)

-----------------------------------------------------------------------------
(* The comparator.  An object is a record; Object.entries lists its keys    *)
(* in the order they were set, which is methodKeys for results and metrics. *)
(* The label "O(n^3)" stands for the source's label with a superscript 3,   *)
(* and a reason for the template of its text and the number it prints.      *)

\* tolerance = 0.001, maxIter = 50 : the defaults of solveJacobi and solveGaussSeidel
defaultTolerance == Frac(1, 1000)
defaultMaxIter == 50

methodKeys == <<"gauss", "pivoting", "gaussJordan", "jacobi", "seidel">>

\* efficiency: 0.7 whether or not Jacobi converged
jacobiEfficiencyFixed(converged) == Frac(7, 10)

\* efficiency: results.jacobi.converged ? 0.7 : 0.0
jacobiEfficiency(converged) == IF converged THEN Frac(7, 10) ELSE PosZero

\* efficiency: results.seidel.converged ? 0.8 : 0.0
seidelEfficiency(converged) == IF converged THEN Frac(8, 10) ELSE PosZero

\* metrics.gauss = {...}; ... metrics.seidel = {...}  (name, advantage and
\* description are fixed texts, left out)
metricsOf(results) ==
    [gauss |->
        [key |-> "gauss", type |-> "direct",
         steps |-> Len(results.gauss.steps), solution |-> results.gauss.solution,
         timeComplexity |-> "O(n^3)", efficiency |-> Num(1)],
     pivoting |->
        [key |-> "pivoting", type |-> "direct",
         steps |-> Len(results.pivoting.steps), solution |-> results.pivoting.solution,
         timeComplexity |-> "O(n^3)", efficiency |-> Frac(95, 100)],
     gaussJordan |->
        [key |-> "gaussJordan", type |-> "direct",
         steps |-> Len(results.gaussJordan.steps),
         solution |-> results.gaussJordan.solution,
         timeComplexity |-> "O(n^3)", efficiency |-> Frac(85, 100)],
     jacobi |->
        [key |-> "jacobi", type |-> "iterative",
         steps |-> Len(results.jacobi.steps), solution |-> results.jacobi.solution,
         converged |-> results.jacobi.converged,
         timeComplexity |-> "O(n^2) per iteration",
         efficiency |-> jacobiEfficiency(results.jacobi.converged)],
     seidel |->
        [key |-> "seidel", type |-> "iterative",
         steps |-> Len(results.seidel.steps), solution |-> results.seidel.solution,
         converged |-> results.seidel.converged,
         timeComplexity |-> "O(n^2) per iteration",
         efficiency |-> seidelEfficiency(results.seidel.converged)]]

\* let bestMethod = null; let bestScore = -1;
noBest == [bestMethod |-> "null", bestScore |-> Num(0 - 1)]

\* score >= bestScore : the test were it not strict
atLeast(score, bestScore) == ~Lt(score, bestScore)

\* if (score > bestScore)
exceeds(score, bestScore) == Gt(score, bestScore)

\* if (score > bestScore) { bestScore = score; bestMethod = m; }
keepBest(best, m, score) ==
    IF exceeds(score, best.bestScore) THEN [bestMethod |-> m, bestScore |-> score]
    ELSE best

directMethods == <<"gauss", "pivoting", "gaussJordan">>
iterativeMethods == <<"jacobi", "seidel">>

RECURSIVE scoreDirectMethods(_, _, _)
\* for (let m of directMethods) { const score = 1000 / (metrics[m].steps + 1); ... }
scoreDirectMethods(metrics, best, i) ==
    IF i <= Len(directMethods)
    THEN LET m == directMethods[i]
             score == Div(Num(1000), Num(metrics[m].steps + 1))
         IN  scoreDirectMethods(metrics, keepBest(best, m, score), i + 1)
    ELSE best

RECURSIVE scoreIterativeMethodsConvergedOrNot(_, _, _)
\* the loop were it to score an iterative method whether it converged or not
scoreIterativeMethodsConvergedOrNot(metrics, best, i) ==
    IF i <= Len(iterativeMethods)
    THEN LET m == iterativeMethods[i]
             score == Div(Num(500), Num(metrics[m].steps + 1))
         IN  scoreIterativeMethodsConvergedOrNot(metrics, keepBest(best, m, score), i + 1)
    ELSE best

RECURSIVE scoreIterativeMethods(_, _, _)
\* for (let m of iterativeMethods) { let score = 0;
\*     if (metrics[m].converged) score = 500 / (metrics[m].steps + 1); ... }
scoreIterativeMethods(metrics, best, i) ==
    IF i <= Len(iterativeMethods)
    THEN LET m == iterativeMethods[i]
             score == IF metrics[m].converged
                      THEN Div(Num(500), Num(metrics[m].steps + 1))
                      ELSE PosZero
         IN  scoreIterativeMethods(metrics, keepBest(best, m, score), i + 1)
    ELSE best

\* const getReason = (methodKey, metrics) => ...
getReason(methodKey, metrics) ==
    IF methodKey = "null" THEN [text |-> "unable"]
    ELSE IF metrics[methodKey].type = "direct"
    THEN (IF methodKey \in {"gauss", "pivoting", "gaussJordan"}
          THEN [text |-> methodKey] ELSE [text |-> "undefined"])
    ELSE IF metrics[methodKey].converged
    THEN (IF methodKey = "seidel"
          THEN [text |-> "recommendedIterative", steps |-> metrics[methodKey].steps]
          ELSE [text |-> "converged", steps |-> metrics[methodKey].steps])
    ELSE [text |-> "didNotConverge"]

\* compareAllMethods from "Calculate metrics for each method" on
recommend(results) ==
    LET metrics == metricsOf(results)
        best == scoreIterativeMethods(metrics,
                                      scoreDirectMethods(metrics, noBest, 1), 1)
    IN  [bestMethod |-> best.bestMethod,
         reason |-> getReason(best.bestMethod, metrics),
         allMetrics |-> metrics,
         results |-> results]

\* the score were it to leave out the efficiency
calculateScoreUnweighted(metric) ==
    IF metric.type = "direct" THEN Div(Num(1000), Num(metric.steps + 1))
    ELSE IF metric.converged THEN Div(Num(500), Num(metric.steps + 1))
    ELSE PosZero

\* const calculateScore = (metric) => ...
calculateScore(metric) ==
    IF metric.type = "direct"
    THEN Mul(metric.efficiency, Div(Num(1000), Num(metric.steps + 1)))
    ELSE IF metric.converged
    THEN Mul(metric.efficiency, Div(Num(500), Num(metric.steps + 1)))
    ELSE PosZero

\* ([key, metric]) => ({...metric, score: calculateScore(metric)})
withScore(metric) == metric @@ [score |-> calculateScore(metric)]

RECURSIVE insertByScore(_, _, _)
\* item put into the sorted list, before the first element at or after
\* position i that (a, b) => b.score - a.score  places after it
insertByScore(list, item, i) ==
    IF i > Len(list) THEN Append(list, item)
    ELSE IF Gt(Sub(item.score, list[i].score), PosZero)
    THEN SubSeq(list, 1, i - 1) \o <<item>> \o SubSeq(list, i, Len(list))
    ELSE insertByScore(list, item, i + 1)

RECURSIVE sortByScore(_, _, _)
\* .sort((a, b) => b.score - a.score) : a stable sort, the items taken in order
sortByScore(items, sorted, i) ==
    IF i > Len(items) THEN sorted
    ELSE sortByScore(items, insertByScore(sorted, items[i], 1), i + 1)

\* export const getRanking = (metrics) => ...
getRanking(metrics) ==
    sortByScore(seq([i \in 1..Len(methodKeys) |-> withScore(metrics[methodKeys[i]])]),
                <<>>, 1)

-----------------------------------------------------------------------------
(* The caller: one call of one solver on an input system, then writes to   *)
(* the arrays it holds.                                                    *)

MaxCoef == 1        \* matrix entries range over -1..MaxCoef
MaxRhs == 2         \* vector entries range over 0..MaxRhs
MaxIter == 3        \* maxIter ranges over 0..MaxIter

\* tolerance = 0.001 (the default), 1 and 0
Tolerances == {<<1, 1000>>, <<1, 1>>, PosZero}

\* the heap holding just the system (M, b): rows at 1..n, M at n + 1, b at n + 2
systemHeap(M, b) ==
    LET n == Len(M)
    IN  [r \in 1..n |-> seq([c \in 1..n |-> Num(M[r][c])])]
            \o << seq([r \in 1..n |-> r]) >>
            \o << seq([r \in 1..n |-> Num(b[r])]) >>

Coefs == -1..MaxCoef
Square2 == {<< <<a, b>>, <<c, d>> >> : a \in Coefs, b \in Coefs, c \in Coefs, d \in Coefs}
Rhs2 == {<<p, q>> : p \in 0..MaxRhs, q \in 0..MaxRhs}

\* 3 x 3 systems: every matrix whose rows are among Rows3 (triangular ones,
\* ones that need a row swap, ones with equal pivot candidates, singular
\* ones), with the right-hand side the application starts with, or zero
Rows3 == {<<1, 0, 0>>, <<-1, 1, 0>>, <<1, -1, 1>>, <<0, -1, 1>>, <<0, 0, -1>>}
Square3 == {<<r1, r2, r3>> : r1 \in Rows3, r2 \in Rows3, r3 \in Rows3}
Rhs3 == {<<1, 2, 0>>, <<0, 0, 0>>}

Systems ==
    {[M |-> M, b |-> b] : M \in Square2, b \in Rhs2}
        \cup {[M |-> M, b |-> b] : M \in Square3, b \in Rhs3}

noCall == [method |-> "none", tolerance |-> NaN, maxIter |-> 0,
           matrix |-> <<>>, vector |-> <<>>]
noResult == [steps |-> <<>>, solution |-> 0, type |-> "none"]
noComparison == [bestMethod |-> "none"]

\* what a result holds, array by array
stepContents(h, step) ==
    [matrix |-> matrixOf(h, step.matrix), vector |-> vectorOf(h, step.vector)]
contentsOf(h, value) ==
    [steps |-> seq([s \in 1..Len(value.steps) |-> stepContents(h, value.steps[s])]),
     solution |-> IF value.solution = 0 THEN <<>> ELSE h[value.solution]]

\* useState(1000): ms per step
defaultSpeed == 1000

\* no timer runs
noInterval == [active |-> FALSE, last |-> 0, delay |-> 0]

\* useState('gauss'), useState(null), useState(0), useState(false), useState(1000)
nothingDisplayed ==
    /\ method = "gauss"
    /\ steps = noResult
    /\ currentStepIndex = 0
    /\ isPlaying = FALSE
    /\ speed = defaultSpeed
    /\ interval = noInterval

Init ==
    /\ \E sys \in Systems :
          /\ heap = systemHeap(sys.M, sys.b)
          /\ matrix = Len(sys.M) + 1
          /\ vector = Len(sys.M) + 2
    /\ pc = "input"
    /\ call = noCall
    /\ result = noResult
    /\ returned = contentsOf(heap, noResult)
    /\ touched = [what |-> "nothing"]
    /\ comparison = noComparison
    /\ ranking = <<>>
    /\ nothingDisplayed

\* the call c returns r = [heap, value]; call keeps what was passed in
Return(r, c) ==
    /\ heap' = r.heap
    /\ result' = r.value
    /\ returned' = contentsOf(r.heap, r.value)
    /\ call' = [method |-> c.method, tolerance |-> c.tolerance, maxIter |-> c.maxIter,
                matrix |-> matrixOf(heap, matrix), vector |-> vectorOf(heap, vector)]
    /\ pc' = "returned"
    /\ UNCHANGED <<matrix, vector, touched, comparison, ranking, display>>

CallGaussElimination ==
    /\ pc = "input"
    /\ Return(solveGaussElimination(heap, matrix, vector), [method |-> "gauss", tolerance |-> NaN, maxIter |-> 0])

CallGaussEliminationWithPivoting ==
    /\ pc = "input"
    /\ Return(solveGaussEliminationWithPivoting(heap, matrix, vector),
              [method |-> "pivoting", tolerance |-> NaN, maxIter |-> 0])

CallGaussJordan ==
    /\ pc = "input"
    /\ Return(solveGaussJordan(heap, matrix, vector), [method |-> "gaussJordan", tolerance |-> NaN, maxIter |-> 0])

CallJacobi ==
    /\ pc = "input"
    /\ \E tolerance \in Tolerances, maxIter \in 0..MaxIter :
          Return(solveJacobi(heap, matrix, vector, tolerance, maxIter),
                 [method |-> "jacobi", tolerance |-> tolerance, maxIter |-> maxIter])

CallGaussSeidel ==
    /\ pc = "input"
    /\ \E tolerance \in Tolerances, maxIter \in 0..MaxIter :
          Return(solveGaussSeidel(heap, matrix, vector, tolerance, maxIter),
                 [method |-> "seidel", tolerance |-> tolerance, maxIter |-> maxIter])

\* the value the caller writes
written == Num(9)

\* after the call, the caller writes to its own matrix or vector:
\* matrix[0][0] = 9  or  vector[0] = 9
WriteInput ==
    /\ pc = "returned"
    /\ \E field \in {"matrix", "vector"} :
          /\ heap' = IF field = "matrix" THEN store2(heap, matrix, 0, 0, written)
                                         ELSE store(heap, vector, 0, written)
          /\ touched' = [what |-> "input", field |-> field]
    /\ pc' = "mutated"
    /\ UNCHANGED <<matrix, vector, call, result, returned, comparison, ranking, display>>

\* after the call, the caller writes to the matrix or vector of a returned step:
\* steps[s].matrix[0][0] = 9  or  steps[s].vector[0] = 9
WriteStep ==
    /\ pc = "returned"
    /\ \E s \in 1..Len(result.steps), field \in {"matrix", "vector"} :
          /\ heap' = IF field = "matrix"
                      THEN store2(heap, result.steps[s].matrix, 0, 0, written)
                      ELSE store(heap, result.steps[s].vector, 0, written)
          /\ touched' = [what |-> "step", step |-> s, field |-> field]
    /\ pc' = "mutated"
    /\ UNCHANGED <<matrix, vector, call, result, returned, comparison, ranking, display>>

Next ==
    \/ CallGaussElimination
    \/ CallGaussEliminationWithPivoting
    \/ CallGaussJordan
    \/ CallJacobi
    \/ CallGaussSeidel

Spec == Init /\ [][Next]_vars

NextWrites == Next \/ WriteInput \/ WriteStep

SpecWrites == Init /\ [][NextWrites]_vars

-----------------------------------------------------------------------------
(* The comparison view: handleCompare runs compareAllMethods on the input   *)
(* system, and the view then shows getRanking(comparison.allMetrics).       *)

MaxSteps == 4       \* the step counts of a drawn result range over 1..MaxSteps

\* the systems compared: the 2 x 2 ones with entries among -1, 0, 1 and the
\* lower triangular 3 x 3 ones with a unit diagonal.  On these the iterates
\* are integers (or not finite) that grow at most linearly with the
\* iteration, so that 50 iterations are computed without rounding
Units == {0 - 1, 0, 1}
UnitSquare2 == {<< <<a, b>>, <<c, d>> >> : a \in Units, b \in Units, c \in Units, d \in Units}
LowerSquare3 == {<< <<1, 0, 0>>, <<a, 1, 0>>, <<b, c, 1>> >> : a \in Units, b \in Units, c \in Units}
\* the system the application starts with
exampleSystem == [M |-> <<<<4, 0 - 1, 0>>, <<0 - 1, 4, 0 - 1>>, <<0, 0 - 1, 3>>>>,
                  b |-> <<1, 2, 0>>]
ComparedSystems ==
    {[M |-> M, b |-> b] : M \in UnitSquare2, b \in Rhs2}
        \cup {[M |-> M, b |-> b] : M \in LowerSquare3, b \in Rhs3}
        \cup {exampleSystem}

InitCompare ==
    /\ \E sys \in ComparedSystems :
          /\ heap = systemHeap(sys.M, sys.b)
          /\ matrix = Len(sys.M) + 1
          /\ vector = Len(sys.M) + 2
    /\ pc = "input"
    /\ call = noCall
    /\ result = noResult
    /\ returned = contentsOf(heap, noResult)
    /\ touched = [what |-> "nothing"]
    /\ comparison = noComparison
    /\ ranking = <<>>
    /\ nothingDisplayed

\* const compResult = compareAllMethods(matrix, vector); setComparison(compResult);
\* compareAllMethods runs the five solvers one after the other, each on the
\* heap the one before left, and then builds the metrics and the recommendation
HandleCompare ==
    /\ pc = "input"
    /\ \E gauss \in {solveGaussElimination(heap, matrix, vector)} :
       \E pivoting \in {solveGaussEliminationWithPivoting(gauss.heap, matrix, vector)} :
       \E gaussJordan \in {solveGaussJordan(pivoting.heap, matrix, vector)} :
       \E jacobi \in {solveJacobi(gaussJordan.heap, matrix, vector,
                                  defaultTolerance, defaultMaxIter)} :
       \E seidel \in {solveGaussSeidel(jacobi.heap, matrix, vector,
                                       defaultTolerance, defaultMaxIter)} :
           /\ heap' = seidel.heap
           /\ comparison' = recommend([gauss |-> gauss.value,
                                       pivoting |-> pivoting.value,
                                       gaussJordan |-> gaussJordan.value,
                                       jacobi |-> jacobi.value,
                                       seidel |-> seidel.value])
    /\ call' = [noCall EXCEPT !.method = "compare",
                              !.matrix = matrixOf(heap, matrix),
                              !.vector = vectorOf(heap, vector)]
    /\ pc' = "compared"
    /\ UNCHANGED <<matrix, vector, result, returned, touched, ranking, display>>

\* getRanking(comparison.allMetrics)
GetRanking ==
    /\ pc = "compared"
    /\ ranking' = getRanking(comparison.allMetrics)
    /\ pc' = "ranked"
    /\ UNCHANGED <<heap, matrix, vector, call, result, returned, touched, comparison, display>>

NextCompare == HandleCompare \/ GetRanking

SpecCompare == InitCompare /\ [][NextCompare]_vars

\* a result of a solver as far as the comparator reads it: its number of
\* steps, its type and, of an iterative one, whether it converged
drawnDirect(n) ==
    [steps |-> seq([s \in 1..n |-> [description |-> [kind |-> "start"]]]),
     solution |-> 0, type |-> "direct"]
drawnIterative(n, converged) ==
    [steps |-> seq([s \in 1..n |-> [description |-> [kind |-> "guess"]]]),
     solution |-> 0, converged |-> converged, type |-> "iterative"]

\* getRanking as a function of the metrics: the comparison of any five results
InitRanking ==
    /\ \E g \in 1..MaxSteps, p \in 1..MaxSteps, gj \in 1..MaxSteps,
          j \in 1..MaxSteps, s \in 1..MaxSteps, cj \in BOOLEAN, cs \in BOOLEAN :
          comparison = recommend([gauss |-> drawnDirect(g),
                                  pivoting |-> drawnDirect(p),
                                  gaussJordan |-> drawnDirect(gj),
                                  jacobi |-> drawnIterative(j, cj),
                                  seidel |-> drawnIterative(s, cs)])
    /\ heap = <<>>
    /\ matrix = 0
    /\ vector = 0
    /\ pc = "compared"
    /\ call = noCall
    /\ result = noResult
    /\ returned = contentsOf(heap, noResult)
    /\ touched = [what |-> "nothing"]
    /\ ranking = <<>>
    /\ nothingDisplayed

NextRanking == GetRanking

SpecRanking == InitRanking /\ [][NextRanking]_vars

\* the tridiagonal systems around the system the application starts with:
\* diagonal entries 3 or 4, entries next to the diagonal -1 or 0
Diagonal == {3, 4}
Beside == {0 - 1, 0}
Tridiagonal3 ==
    {<< <<d1, a, 0>>, <<b, d2, c>>, <<0, e, d3>> >> :
        d1 \in Diagonal, d2 \in Diagonal, d3 \in Diagonal,
        a \in Beside, b \in Beside, c \in Beside, e \in Beside}
DirectSystems == Systems \cup {[M |-> M, b |-> b] : M \in Tridiagonal3, b \in Rhs3}

InitDirect ==
    /\ \E sys \in DirectSystems :
          /\ heap = systemHeap(sys.M, sys.b)
          /\ matrix = Len(sys.M) + 1
          /\ vector = Len(sys.M) + 2
    /\ pc = "input"
    /\ call = noCall
    /\ result = noResult
    /\ returned = contentsOf(heap, noResult)
    /\ touched = [what |-> "nothing"]
    /\ comparison = noComparison
    /\ ranking = <<>>
    /\ nothingDisplayed

\* handleSolve with one of the direct methods selected
NextDirect ==
    \/ CallGaussElimination
    \/ CallGaussEliminationWithPivoting
    \/ CallGaussJordan

SpecDirect == InitDirect /\ [][NextDirect]_vars

-----------------------------------------------------------------------------
(* The App: its inputs, the Solve button and the playback of the trace.    *)
(* Each action is one event handler together with the render and the       *)
(* animation effect that follow it.  Arrays no state refers to any more     *)
(* are collected, so that the heap holds the system (rows, matrix, vector)  *)
(* and, after it, the arrays of the trace displayed.                        *)

\* <option value={2}>, <option value={3}>  (the 4 x 4 size is left out)
Sizes == {2, 3}

\* the cells and the entry edited, and the texts typed into them
EditedCells == {<<1, 0>>}
EditedEntries == {0}
TypedCell == {"", "0", "1", "-1"}
TypedEntry == {"", "1"}

\* <input type="range" min="100" max="2000" step="100">: two of its values
Speeds == {100, defaultSpeed}

Methods == {"gauss", "pivoting", "gauss-jordan", "jacobi", "seidel"}

\* parseFloat(val) of the texts typed
parseFloat(val) ==
    CASE val = "0" -> PosZero
      [] val = "1" -> Num(1)
      [] val = "-1" -> Num(0 - 1)
      [] OTHER -> NaN

\* parseFloat(val) || 0
parseFloatOrZero(val) ==
    LET x == parseFloat(val) IN IF IsNaN(x) \/ IsZero(x) THEN PosZero ELSE x

\* the heap with the system (m, v) alone, its arrays in the order rows, m, v
collect(h, m, v) ==
    LET n == Len(h[m])
    IN  seq([r \in 1..n |-> h[h[m][r]]]) \o << seq([r \in 1..n |-> r]) >> \o << h[v] >>

loaded == steps.type # "none"

\* useEffect(() => { if (!isPlaying || !steps) return; const interval = setInterval(...,
\*     speed); return () => clearInterval(interval); }, [isPlaying, steps, speed]):
\* the timer that runs after a render with these values
effect(playing, trace, delay) ==
    IF playing /\ trace.type # "none"
    THEN [active |-> TRUE, last |-> Len(trace.steps) - 1, delay |-> delay]
    ELSE noInterval

\* const resetSolver = () => { setSteps(null); setCurrentStepIndex(0); setIsPlaying(false); }
resetSolver ==
    /\ steps' = noResult
    /\ currentStepIndex' = 0
    /\ isPlaying' = FALSE
    /\ interval' = effect(FALSE, noResult, speed)

\* the part of the state the App's handlers never write
notOfApp == <<pc, call, result, returned, touched, comparison, ranking>>

\* the state of the App after construction
InitApp ==
    /\ heap = systemHeap(exampleSystem.M, exampleSystem.b)
    /\ matrix = Len(exampleSystem.M) + 1
    /\ vector = Len(exampleSystem.M) + 2
    /\ pc = "app"
    /\ call = noCall
    /\ result = noResult
    /\ returned = contentsOf(heap, noResult)
    /\ touched = [what |-> "nothing"]
    /\ comparison = noComparison
    /\ ranking = <<>>
    /\ nothingDisplayed

\* const handleSizeChange = (newSize) => { ... newM[i][i] = 1; setMatrix(newM);
\*     setVector(newV); resetSolver(); }
HandleSizeChange ==
    /\ pc = "app"
    /\ \E newSize \in Sizes :
          /\ heap' = systemHeap([r \in 1..newSize |->
                                   [c \in 1..newSize |-> IF r = c THEN 1 ELSE 0]],
                                [r \in 1..newSize |-> 0])
          /\ matrix' = newSize + 1
          /\ vector' = newSize + 2
    /\ resetSolver
    /\ UNCHANGED <<method, speed, notOfApp>>

\* handleMatrixChange(r, c, val): const newM = [...matrix]; newM[r][c] = parseFloat(val) || 0;
\* onChange(newM, vector), that is  setMatrix(m); setVector(v); resetSolver();
\* the row written to is the row of the matrix in the state
HandleMatrixChange ==
    /\ pc = "app"
    /\ \E cell \in EditedCells, val \in TypedCell :
          /\ cell[1] < Len(heap[matrix])
          /\ cell[2] < Len(heap[matrix])
          /\ \E newM \in {alloc(heap, heap[matrix])} :
                heap' = collect(store2(newM.heap, newM.ref, cell[1], cell[2],
                                       parseFloatOrZero(val)),
                                newM.ref, vector)
    /\ matrix' = Len(heap[matrix]) + 1
    /\ vector' = Len(heap[matrix]) + 2
    /\ resetSolver
    /\ UNCHANGED <<method, speed, notOfApp>>

\* handleVectorChange(r, val): const newV = [...vector]; newV[r] = parseFloat(val) || 0;
\* onChange(matrix, newV)
HandleVectorChange ==
    /\ pc = "app"
    /\ \E r \in EditedEntries, val \in TypedEntry :
          /\ r < Len(heap[vector])
          /\ \E newV \in {copyVector(heap, vector)} :
                heap' = collect(store(newV.heap, newV.ref, r, parseFloatOrZero(val)),
                                matrix, newV.ref)
    /\ matrix' = Len(heap[matrix]) + 1
    /\ vector' = Len(heap[matrix]) + 2
    /\ resetSolver
    /\ UNCHANGED <<method, speed, notOfApp>>

\* onChange={(e) => { setMethod(e.target.value); resetSolver(); }}
SelectMethod ==
    /\ pc = "app"
    /\ \E m \in Methods : method' = m
    /\ heap' = collect(heap, matrix, vector)
    /\ resetSolver
    /\ UNCHANGED <<matrix, vector, speed, notOfApp>>

\* the solver were it Gauss elimination whatever the method selected
solveGaussWhateverSelected(h, m, v, selected) == solveGaussElimination(h, m, v)

\* if (method === 'gauss') result = solveGaussElimination(matrix, vector);
\* else if (method === 'pivoting') ... else if (method === 'seidel') ...
solveSelected(h, m, v, selected) ==
    IF selected = "gauss" THEN solveGaussElimination(h, m, v)
    ELSE IF selected = "pivoting" THEN solveGaussEliminationWithPivoting(h, m, v)
    ELSE IF selected = "gauss-jordan" THEN solveGaussJordan(h, m, v)
    ELSE IF selected = "jacobi"
    THEN solveJacobi(h, m, v, defaultTolerance, defaultMaxIter)
    ELSE IF selected = "seidel"
    THEN solveGaussSeidel(h, m, v, defaultTolerance, defaultMaxIter)
    ELSE [heap |-> h, value |-> noResult]

\* const handleSolve = () => { resetSolver(); let result; ...; setSteps(result); }
HandleSolve ==
    /\ pc = "app"
    /\ \E r \in {solveSelected(collect(heap, matrix, vector), matrix, vector, method)} :
          /\ heap' = r.heap
          /\ steps' = r.value
    /\ currentStepIndex' = 0
    /\ isPlaying' = FALSE
    /\ interval' = effect(isPlaying', steps', speed)
    /\ UNCHANGED <<matrix, vector, method, speed, notOfApp>>

\* onClick={() => setCurrentStepIndex(0)}
Restart ==
    /\ pc = "app"
    /\ loaded
    /\ currentStepIndex' = 0
    /\ UNCHANGED <<heap, matrix, vector, method, steps, isPlaying, speed, interval, notOfApp>>

\* Math.max(0, currentStepIndex-1)
stepBack(index) == IF index - 1 > 0 THEN index - 1 ELSE 0

\* onClick={() => setCurrentStepIndex(Math.max(0, currentStepIndex-1))}
StepBack ==
    /\ pc = "app"
    /\ loaded
    /\ currentStepIndex' = stepBack(currentStepIndex)
    /\ UNCHANGED <<heap, matrix, vector, method, steps, isPlaying, speed, interval, notOfApp>>

\* the step forward were it not to stop at the last step
stepForwardPastEnd(length, index) == index + 1

\* Math.min(steps.steps.length-1, currentStepIndex+1)
stepForward(length, index) == IF index + 1 < length - 1 THEN index + 1 ELSE length - 1

\* onClick={() => setCurrentStepIndex(Math.min(steps.steps.length-1, currentStepIndex+1))}
StepForward ==
    /\ pc = "app"
    /\ loaded
    /\ currentStepIndex' = stepForward(Len(steps.steps), currentStepIndex)
    /\ UNCHANGED <<heap, matrix, vector, method, steps, isPlaying, speed, interval, notOfApp>>

\* onClick={() => setIsPlaying(!isPlaying)}
PlayPause ==
    /\ pc = "app"
    /\ loaded
    /\ isPlaying' = ~isPlaying
    /\ interval' = effect(isPlaying', steps, speed)
    /\ UNCHANGED <<heap, matrix, vector, method, steps, currentStepIndex, speed, notOfApp>>

\* onChange={(e) => setSpeed(Number(e.target.value))}
SetSpeed ==
    /\ pc = "app"
    /\ loaded
    /\ \E s \in Speeds : speed' = s
    /\ interval' = effect(isPlaying, steps, speed')
    /\ UNCHANGED <<heap, matrix, vector, method, steps, currentStepIndex, isPlaying, notOfApp>>

\* the tick were it to stop the playback without a test
tickStopping(last, prev) == [index |-> prev, playing |-> FALSE]

\* prev => { if (prev >= steps.steps.length - 1) { setIsPlaying(false); return prev; }
\*           return prev + 1; }
tick(last, prev) ==
    IF prev >= last THEN [index |-> prev, playing |-> FALSE]
    ELSE [index |-> prev + 1, playing |-> isPlaying]

\* the callback of setInterval: setCurrentStepIndex(prev => ...)
Tick ==
    /\ pc = "app"
    /\ interval.active
    /\ \E t \in {tick(interval.last, currentStepIndex)} :
          /\ currentStepIndex' = t.index
          /\ isPlaying' = t.playing
    /\ interval' = effect(isPlaying', steps, speed)
    /\ UNCHANGED <<heap, matrix, vector, method, steps, speed, notOfApp>>

NextApp ==
    \/ HandleSizeChange
    \/ HandleMatrixChange
    \/ HandleVectorChange
    \/ SelectMethod
    \/ HandleSolve
    \/ Restart
    \/ StepBack
    \/ StepForward
    \/ PlayPause
    \/ SetSpeed
    \/ Tick

SpecApp == InitApp /\ [][NextApp]_vars

\* the playback left to itself: while it runs the user does nothing, and the
\* timer, once set, fires again and again
NextPlayback ==
    \/ ~isPlaying /\ HandleSizeChange
    \/ ~isPlaying /\ HandleMatrixChange
    \/ ~isPlaying /\ HandleVectorChange
    \/ ~isPlaying /\ SelectMethod
    \/ ~isPlaying /\ HandleSolve
    \/ ~isPlaying /\ Restart
    \/ ~isPlaying /\ StepBack
    \/ ~isPlaying /\ StepForward
    \/ ~isPlaying /\ PlayPause
    \/ ~isPlaying /\ SetSpeed
    \/ Tick

SpecPlayback == InitApp /\ [][NextPlayback]_vars /\ WF_vars(Tick)

-----------------------------------------------------------------------------
(* Properties *)

DirectMethods == {"gauss", "pivoting", "gaussJordan"}
IterativeMethods == {"jacobi", "seidel"}

\* two numbers are the same value (NaN is NaN, +0 is -0)
same(x, y) == x = y \/ (IsZero(x) /\ IsZero(y))

solution == heap[result.solution]
order == Len(call.matrix)

RECURSIVE sumTerms(_, _, _, _, _)
\* the sum of row[j] * x[j] over the j of lo..hi other than skip (1-based)
sumTerms(row, x, lo, hi, skip) ==
    IF lo > hi THEN PosZero
    ELSE IF hi = skip THEN sumTerms(row, x, lo, hi - 1, skip)
    ELSE Add(sumTerms(row, x, lo, hi - 1, skip), Mul(row[hi], x[hi]))

\* A . x = b, component by component
solves(A, x, b) ==
    \A i \in 1..Len(A) :
        /\ IsFinite(x[i])
        /\ NumEq(sumTerms(A[i], x, 1, Len(A), 0), b[i])

\* the integer an input entry holds
int(x) == x[1]

\* M without its first row and its column c
minor(M, c) ==
    seq([r \in 1..(Len(M) - 1) |->
            seq([k \in 1..(Len(M) - 1) |-> M[r + 1][IF k < c THEN k ELSE k + 1]])])

RECURSIVE det(_)
RECURSIVE detFrom(_, _)
\* the determinant of an integer matrix, by its first row
det(M) == IF Len(M) = 1 THEN int(M[1][1]) ELSE detFrom(M, 1)
detFrom(M, c) ==
    IF c > Len(M) THEN 0
    ELSE (IF c % 2 = 1 THEN 1 ELSE -1) * int(M[1][c]) * det(minor(M, c))
             + detFrom(M, c + 1)

\* the leading k x k block of M
leading(M, k) == seq([r \in 1..k |-> SubSeq(M[r], 1, k)])

nonSingular(M) == det(M) # 0
noZeroPivot(M) == \A k \in 1..Len(M) : det(leading(M, k)) # 0

stepKinds == [s \in 1..Len(result.steps) |-> result.steps[s].description.kind]

(* C1: the matrix and vector of every recorded step are copies of their     *)
(* own: once the call has returned, a write to the caller's matrix or       *)
(* vector, or to the matrix or vector of one step, changes no other step    *)
(* and not the returned solution.                                           *)
C1_SnapshotIsolation ==
    pc = "mutated" =>
        LET now == contentsOf(heap, result)
        IN  /\ now.solution = returned.solution
            /\ \A s \in 1..Len(result.steps) :
                   \/ touched.what = "step" /\ touched.step = s
                   \/ now.steps[s] = returned.steps[s]

(* C2 as stated: for every non-singular A and every b, each direct solver  *)
(* returns x with A . x = b.                                                *)
C2_RoundTrip ==
    (pc = "returned" /\ call.method \in DirectMethods /\ nonSingular(call.matrix))
        => solves(call.matrix, solution, call.vector)

(* C2 amended: for every non-singular A and every b, the pivoting solver   *)
(* and Gauss-Jordan return x with A . x = b, and so does Gauss elimination  *)
(* without pivoting when no leading principal minor of A is zero (it then   *)
(* meets no zero pivot).                                                    *)
C2_RoundTripPivoted ==
    (pc = "returned" /\ call.method \in DirectMethods /\ nonSingular(call.matrix)
        /\ (call.method = "gauss" => noZeroPivot(call.matrix)))
        => solves(call.matrix, solution, call.vector)

\* Gauss-Jordan has solved a non-singular 3 x 3 system that needed a row swap
C2_Witness ==
    /\ pc = "returned"
    /\ call.method = "gaussJordan"
    /\ order = 3
    /\ nonSingular(call.matrix)
    /\ ~noZeroPivot(call.matrix)
    /\ \E s \in 1..Len(result.steps) : stepKinds[s] = "swap"
    /\ solves(call.matrix, solution, call.vector)
    /\ \E i \in 1..3 : ~IsZero(solution[i])

zeroPivotSystem == [M |-> << <<Num(0), Num(1)>>, <<Num(1), Num(0)>> >>,
                    b |-> <<Num(1), Num(2)>>]

(* C3: on A = [[0,1],[1,0]], b = [1,2], Gauss elimination without pivoting  *)
(* returns a solution holding a non-finite value, and the pivoting solver   *)
(* swaps rows 0 and 1 and returns [2, 1].                                   *)
C3_ZeroPivotExample ==
    (pc = "returned" /\ call.matrix = zeroPivotSystem.M /\ call.vector = zeroPivotSystem.b)
        => /\ call.method = "gauss" =>
                 /\ Len(solution) = 2
                 /\ \E i \in 1..2 : ~IsFinite(solution[i])
           /\ call.method = "pivoting" =>
                 /\ solution = <<Num(2), Num(1)>>
                 /\ \E s \in 1..Len(result.steps) :
                        /\ result.steps[s].description =
                               [kind |-> "swap", k |-> 0, pivotRow |-> 1]
                        /\ result.steps[s].highlights.rows = <<0, 1>>
                        /\ matrixOf(heap, result.steps[s].matrix)
                               = << <<Num(1), Num(0)>>, <<Num(0), Num(1)>> >>
                        /\ vectorOf(heap, result.steps[s].vector) = <<Num(2), Num(1)>>

\* the pivoting solver has returned from the zero-pivot example
C3_Witness ==
    /\ pc = "returned"
    /\ call.method = "pivoting"
    /\ call.matrix = zeroPivotSystem.M
    /\ call.vector = zeroPivotSystem.b
    /\ solution = <<Num(2), Num(1)>>

\* xCurrent of step s (step 1 is the initial guess, step t + 1 iteration t)
xCurrentOf(s) == heap[result.steps[s].xCurrent]

iterations == Len(result.steps) - 1

\* (b[i] - sum over j # i of A[i][j] * x[j]) / A[i][i]
jacobiRule(A, b, x, i) ==
    Div(Sub(b[i], sumTerms(A[i], x, 1, Len(A), i)), A[i][i])

\* (b[i] - sum over j < i of A[i][j] * xNew[j] - sum over j > i of A[i][j] * x[j]) / A[i][i]
seidelRule(A, b, x, xNew, i) ==
    Div(Sub(Sub(b[i], sumTerms(A[i], xNew, 1, i - 1, 0)),
            sumTerms(A[i], x, i + 1, Len(A), 0)),
        A[i][i])

(* C4: every iteration of solveJacobi computes each component from the     *)
(* previous iteration's complete vector (the zero vector at first):         *)
(* xNew[i] = (b[i] - sum over j # i of A[i][j] * x[j]) / A[i][i].           *)
C4_JacobiUpdateRule ==
    (pc = "returned" /\ call.method = "jacobi") =>
        /\ xCurrentOf(1) = zeros(order)
        /\ \A t \in 1..iterations : \A i \in 1..order :
               same(xCurrentOf(t + 1)[i],
                    jacobiRule(call.matrix, call.vector, xCurrentOf(t), i))

\* Jacobi has run three iterations of a 3 x 3 system on finite values, and
\* the last one differs from what updating in place would have given
C4_Witness ==
    /\ pc = "returned"
    /\ call.method = "jacobi"
    /\ order = 3
    /\ iterations = 3
    /\ \A t \in 1..4 : \A i \in 1..3 : IsFinite(xCurrentOf(t)[i])
    /\ \E i \in 1..3 :
          ~same(xCurrentOf(4)[i],
                seidelRule(call.matrix, call.vector, xCurrentOf(3), xCurrentOf(4), i))

(* C5: every iteration of solveGaussSeidel computes component i from the   *)
(* values already updated in this iteration for j < i and the previous      *)
(* iteration's values for j > i.                                            *)
C5_SeidelUpdateRule ==
    (pc = "returned" /\ call.method = "seidel") =>
        /\ xCurrentOf(1) = zeros(order)
        /\ \A t \in 1..iterations : \A i \in 1..order :
               same(xCurrentOf(t + 1)[i],
                    seidelRule(call.matrix, call.vector,
                               xCurrentOf(t), xCurrentOf(t + 1), i))

\* Gauss-Seidel has run three iterations of a 3 x 3 system on finite values,
\* and the last one differs from what the Jacobi rule would have given
C5_Witness ==
    /\ pc = "returned"
    /\ call.method = "seidel"
    /\ order = 3
    /\ iterations = 3
    /\ \A t \in 1..4 : \A i \in 1..3 : IsFinite(xCurrentOf(t)[i])
    /\ \E i \in 1..3 :
          ~same(xCurrentOf(4)[i],
                jacobiRule(call.matrix, call.vector, xCurrentOf(3), i))

RECURSIVE squaredDistance(_, _, _)
\* the sum over i <= n of (y[i] - x[i])^2
squaredDistance(x, y, n) ==
    IF n = 0 THEN PosZero
    ELSE Add(squaredDistance(x, y, n - 1), Square(Sub(y[n], x[n])))

\* iteration t's error is strictly below the tolerance of the call
below(t) ==
    LET d == squaredDistance(xCurrentOf(t), xCurrentOf(t + 1), order)
    IN  /\ IsFinite(d)
        /\ Gt(call.tolerance, PosZero)
        /\ Lt(d, Square(call.tolerance))

(* C6: an iterative solver runs at most maxIter iterations; it stops at    *)
(* the first iteration whose error (the Euclidean norm of xNew - x) is      *)
(* strictly below tolerance and then returns converged = true; otherwise it *)
(* runs maxIter iterations and returns converged = false; steps holds the   *)
(* initial guess and then one step per iteration.                           *)
C6_ConvergenceAndTermination ==
    (pc = "returned" /\ call.method \in IterativeMethods) =>
        /\ iterations >= 0
        /\ iterations <= call.maxIter
        /\ \A t \in 1..(iterations - 1) : ~below(t)
        /\ result.converged = (iterations >= 1 /\ below(iterations))
        /\ ~result.converged => iterations = call.maxIter
        /\ stepKinds[1] = "guess"
        /\ \A t \in 1..iterations :
               result.steps[t + 1].description = [kind |-> "iteration", iter |-> t]

\* a solver has stopped before maxIter, at its second iteration
C6_Witness ==
    /\ pc = "returned"
    /\ call.method \in IterativeMethods
    /\ result.converged
    /\ iterations = 2
    /\ call.maxIter = 3
    /\ ~below(1)

(* C7: an iterative solver that does not converge within maxIter (always   *)
(* so when maxIter = 0) still returns converged = false, a non-empty steps  *)
(* and a solution of length n, and the xCurrent of its last step holds the  *)
(* returned solution (the zero vector when maxIter = 0).                    *)
C7_NonConvergenceReporting ==
    (pc = "returned" /\ call.method \in IterativeMethods) =>
        /\ call.maxIter = 0 =>
              /\ ~result.converged
              /\ Len(result.steps) = 1
              /\ solution = zeros(order)
        /\ ~result.converged =>
              /\ Len(result.steps) >= 1
              /\ Len(solution) = order
              /\ xCurrentOf(Len(result.steps)) = solution

\* a solver has used up maxIter = 3 iterations without converging
C7_Witness ==
    /\ pc = "returned"
    /\ call.method \in IterativeMethods
    /\ ~result.converged
    /\ call.maxIter = 3
    /\ iterations = 3
    /\ solution # zeros(order)

metric(m) == comparison.allMetrics[m]

\* the selection score: 1000 / (steps + 1) for a direct method,
\* 500 / (steps + 1) for a converged iterative one, 0 otherwise
selectionScore(m) ==
    IF m \in DirectMethods THEN Frac(1000, metric(m).steps + 1)
    ELSE IF metric(m).converged THEN Frac(500, metric(m).steps + 1)
    ELSE PosZero

\* no method scores higher than methodKeys[i]
highest(i) ==
    \A j \in 1..Len(methodKeys) :
        ~Lt(selectionScore(methodKeys[i]), selectionScore(methodKeys[j]))

(* C8: bestMethod of compareAllMethods is the method with the highest      *)
(* score, 1000/(steps+1) for a direct method, 500/(steps+1) for a converged *)
(* iterative method and 0 for one that did not converge; of several with    *)
(* the highest score it is the first in the order gauss, pivoting,          *)
(* gaussJordan, jacobi, seidel.                                             *)
C8_BestMethodSelection ==
    pc = "compared" =>
        \E i \in 1..Len(methodKeys) :
            /\ comparison.bestMethod = methodKeys[i]
            /\ highest(i)
            /\ \A j \in 1..(i - 1) : ~highest(j)

\* an iterative method has been selected, with the same score as another
C8_Witness ==
    /\ pc = "compared"
    /\ call.method = "compare"
    /\ comparison.bestMethod = "jacobi"
    /\ selectionScore("jacobi") = selectionScore("seidel")
    /\ Lt(selectionScore("gauss"), selectionScore("jacobi"))

\* the display score of a ranked metric
displayScore(r) ==
    IF r.type = "direct" THEN Mul(r.efficiency, Frac(1000, r.steps + 1))
    ELSE IF r.converged THEN Mul(r.efficiency, Frac(500, r.steps + 1))
    ELSE PosZero

efficiencyTable(m) ==
    CASE m = "gauss" -> Num(1)
      [] m = "pivoting" -> Frac(95, 100)
      [] m = "gaussJordan" -> Frac(85, 100)
      [] m = "jacobi" -> (IF comparison.results[m].converged THEN Frac(7, 10) ELSE PosZero)
      [] m = "seidel" -> (IF comparison.results[m].converged THEN Frac(8, 10) ELSE PosZero)

(* C10: allMetrics and results of compareAllMethods have exactly the five  *)
(* keys gauss, pivoting, gaussJordan, jacobi, seidel; for each key m,       *)
(* allMetrics[m].steps = results[m].steps.length and allMetrics[m].type =   *)
(* results[m].type; the efficiency is 1.0, 0.95, 0.85 for the direct        *)
(* methods and 0.7 (jacobi), 0.8 (seidel) when converged, 0.0 when not, so  *)
(* within [0, 1]; timeComplexity is the cubic label for a direct and the    *)
(* quadratic-per-iteration label for an iterative method.                   *)
C10_MetricConstruction ==
    pc = "compared" =>
        /\ DOMAIN comparison.allMetrics = DirectMethods \cup IterativeMethods
        /\ DOMAIN comparison.results = DirectMethods \cup IterativeMethods
        /\ \A m \in DOMAIN comparison.allMetrics :
               /\ metric(m).steps = Len(comparison.results[m].steps)
               /\ metric(m).type = comparison.results[m].type
               /\ metric(m).type = (IF m \in DirectMethods THEN "direct" ELSE "iterative")
               /\ metric(m).efficiency = efficiencyTable(m)
               /\ ~Lt(metric(m).efficiency, PosZero)
               /\ ~Gt(metric(m).efficiency, Num(1))
               /\ metric(m).timeComplexity =
                      (IF m \in DirectMethods THEN "O(n^3)" ELSE "O(n^2) per iteration")

\* a comparison in which Jacobi did not converge in 50 iterations and
\* Gauss-Seidel did
C10_Witness ==
    /\ pc = "compared"
    /\ call.method = "compare"
    /\ ~comparison.results.jacobi.converged
    /\ Len(comparison.results.jacobi.steps) = defaultMaxIter + 1
    /\ comparison.results.seidel.converged
    /\ metric("jacobi").efficiency = PosZero
    /\ metric("seidel").efficiency = Frac(8, 10)

\* a step with the contents of the arrays it refers to
deepStep(h, step) ==
    [f \in DOMAIN step |->
        IF f = "matrix" THEN matrixOf(h, step[f])
        ELSE IF f \in {"vector", "xCurrent", "errorHistory"} THEN h[step[f]]
        ELSE step[f]]

\* a result with the contents of the arrays it refers to
deep(h, value) ==
    [f \in DOMAIN value |->
        IF f = "steps" THEN seq([s \in 1..Len(value.steps) |-> deepStep(h, value.steps[s])])
        ELSE IF f = "solution" THEN h[value.solution]
        ELSE value[f]]

\* a heap holding just the system of the call, as systemHeap lays it out
callHeap ==
    LET n == Len(call.matrix)
    IN  call.matrix \o << seq([r \in 1..n |-> r]) >> \o << call.vector >>

\* solver m called alone on the system of the call
callAlone(m) ==
    LET h == callHeap
        A == Len(call.matrix) + 1
        b == Len(call.matrix) + 2
    IN  CASE m = "gauss" -> solveGaussElimination(h, A, b)
          [] m = "pivoting" -> solveGaussEliminationWithPivoting(h, A, b)
          [] m = "gaussJordan" -> solveGaussJordan(h, A, b)
          [] m = "jacobi" -> solveJacobi(h, A, b, defaultTolerance, defaultMaxIter)
          [] m = "seidel" -> solveGaussSeidel(h, A, b, defaultTolerance, defaultMaxIter)

\* its result, with the contents of the arrays it refers to
resultAlone(r) == deep(r.heap, r.value)

alone(m) == resultAlone(callAlone(m))

\* the arrays passed to the lone call hold after it what they held before
untouchedAlone(r) ==
    /\ matrixOf(r.heap, Len(call.matrix) + 1) = call.matrix
    /\ vectorOf(r.heap, Len(call.matrix) + 2) = call.vector

inputUnchanged ==
    /\ matrixOf(heap, matrix) = call.matrix
    /\ vectorOf(heap, vector) = call.vector

(* C11: a call of any of the five solvers alone, and compareAllMethods,     *)
(* which calls the five one after the other on the caller's arrays, leave   *)
(* the caller's matrix and vector with the contents they had; each of the   *)
(* five results of compareAllMethods is the result of that solver called    *)
(* alone on the same input.                                                 *)
C11_InputUntouched ==
    pc = "compared" =>
        /\ inputUnchanged
        /\ \A i \in 1..Len(methodKeys) :
               LET r == callAlone(methodKeys[i])
               IN  /\ untouchedAlone(r)
                   /\ deep(heap, comparison.results[methodKeys[i]]) = resultAlone(r)

\* a comparison in which the elimination changed its working matrix and the
\* iterative solvers, run last, iterated
C11_Witness ==
    /\ pc = "compared"
    /\ \E s \in 1..Len(comparison.results.gauss.steps) :
          matrixOf(heap, comparison.results.gauss.steps[s].matrix) # call.matrix
    /\ Len(comparison.results.seidel.steps) > 2
    /\ comparison.results.seidel.converged

lastStep == result.steps[Len(result.steps)]

\* M is the n x n identity matrix (a zero of either sign is zero)
isIdentity(M) ==
    \A r \in 1..Len(M) : \A c \in 1..Len(M) :
        same(M[r][c], IF r = c THEN Num(1) ELSE PosZero)

(* C12: for every non-singular A, the last step solveGaussJordan records   *)
(* is the "RREF complete" step, it holds the identity matrix and a vector   *)
(* equal to the returned solution, and the trace has no back-substitution   *)
(* steps.                                                                   *)
C12_GaussJordanTerminal ==
    (pc = "returned" /\ call.method = "gaussJordan" /\ nonSingular(call.matrix)) =>
        /\ lastStep.description = [kind |-> "rref"]
        /\ isIdentity(matrixOf(heap, lastStep.matrix))
        /\ vectorOf(heap, lastStep.vector) = solution
        /\ \A s \in 1..Len(result.steps) : stepKinds[s] \notin {"backsub", "solve"}

\* Gauss-Jordan has reduced a non-singular 3 x 3 matrix with entries above
\* and below its diagonal, swapping rows on the way
C12_Witness ==
    /\ pc = "returned"
    /\ call.method = "gaussJordan"
    /\ order = 3
    /\ nonSingular(call.matrix)
    /\ ~IsZero(call.matrix[1][2])
    /\ ~IsZero(call.matrix[3][2])
    /\ \E s \in 1..Len(result.steps) : stepKinds[s] = "swap"
    /\ isIdentity(matrixOf(heap, lastStep.matrix))

\* every entry of M below the diagonal is 0
upperTriangular(M) ==
    \A r \in 1..Len(M) : \A c \in 1..(r - 1) : IsZero(M[r][c])

\* the call is one of a back-substitution solver that meets no zero pivot
backSubstitutionCall ==
    \/ call.method = "gauss" /\ noZeroPivot(call.matrix)
    \/ call.method = "pivoting" /\ nonSingular(call.matrix)

errorHistoryOf(s) ==
    IF "errorHistory" \in DOMAIN result.steps[s]
    THEN heap[result.steps[s].errorHistory]
    ELSE <<>>

onExample ==
    /\ call.matrix = matrixOf(systemHeap(exampleSystem.M, exampleSystem.b), 4)
    /\ call.vector = vectorOf(systemHeap(exampleSystem.M, exampleSystem.b), 5)

exampleCompared == pc = "compared" /\ onExample

(* C16: on the example A = [[4,-1,0],[-1,4,-1],[0,-1,3]], b = [1,2,0]      *)
(* compareAllMethods reports 15 steps for Gauss elimination, 17 steps for   *)
(* Gauss elimination with pivoting and 21 steps for Gauss-Jordan.           *)
C16_ReadmeStepCounts ==
    exampleCompared =>
        /\ comparison.allMetrics.gauss.steps = 15
        /\ comparison.allMetrics.pivoting.steps = 17
        /\ comparison.allMetrics.gaussJordan.steps = 21

(* C17: on the example A = [[4,-1,0],[-1,4,-1],[0,-1,3]], b = [1,2,0]      *)
(* compareAllMethods recommends Gauss elimination with pivoting:            *)
(* bestMethod = 'pivoting'.                                                 *)
C17_ReadmeRecommendation ==
    exampleCompared => comparison.bestMethod = "pivoting"


\* the errorHistory of the last step of a result of the comparison
finalErrorHistory(r) == heap[r.steps[Len(r.steps)].errorHistory]

(* C18: on the example A = [[4,-1,0],[-1,4,-1],[0,-1,3]], b = [1,2,0],     *)
(* with the default tolerance 0.001 and the default maxIter 50, solveJacobi *)
(* and solveGaussSeidel both return converged = true, and the errorHistory  *)
(* of Gauss-Seidel's final step is no longer than that of Jacobi's.         *)
C18_SeidelNoSlowerOnExample ==
    exampleCompared =>
        /\ comparison.results.jacobi.converged
        /\ comparison.results.seidel.converged
        /\ Len(finalErrorHistory(comparison.results.seidel))
               <= Len(finalErrorHistory(comparison.results.jacobi))

\* the example has been compared: Jacobi stopped after 8 iterations and
\* Gauss-Seidel after 5, each on an error below the tolerance that followed
\* an error not below it
C18_Witness ==
    /\ exampleCompared
    /\ Len(finalErrorHistory(comparison.results.jacobi)) = 8
    /\ Len(finalErrorHistory(comparison.results.seidel)) = 5
    /\ SqrtLt(finalErrorHistory(comparison.results.jacobi)[8], defaultTolerance)
    /\ ~SqrtLt(finalErrorHistory(comparison.results.jacobi)[7], defaultTolerance)
    /\ SqrtLt(finalErrorHistory(comparison.results.seidel)[5], defaultTolerance)
    /\ ~SqrtLt(finalErrorHistory(comparison.results.seidel)[4], defaultTolerance)


members(s) == {s[i] : i \in 1..Len(s)}

\* what a step of the trace says: its description and what it highlights
shapeOf(step) ==
    [description |-> step.description,
     rows |-> members(step.highlights.rows),
     cells |-> members(step.highlights.cells)]

traceShape == seq([s \in 1..Len(result.steps) |-> shapeOf(result.steps[s])])

methodHeader == [description |-> [kind |-> "start"], rows |-> {}, cells |-> {}]

pivotSelected(k) ==
    [description |-> [kind |-> "pivot", k |-> k], rows |-> {}, cells |-> {<<k, k>>}]

eliminatingRow(i, k) ==
    [description |-> [kind |-> "eliminate", i |-> i, k |-> k],
     rows |-> {i, k}, cells |-> {<<i, k>>}]

startingBackSubstitution == [description |-> [kind |-> "backsub"], rows |-> {}, cells |-> {}]

solving(i) == [description |-> [kind |-> "solve", i |-> i], rows |-> {i}, cells |-> {}]

RECURSIVE eliminationTrace(_, _)
\* for each pivot index from k to n-1: its pivot step, then the elimination
\* steps of the rows k+1..n-1 in increasing order
eliminationTrace(k, n) ==
    IF k < n
    THEN <<pivotSelected(k)>>
             \o seq([j \in 1..(n - 1 - k) |-> eliminatingRow(k + j, k)])
             \o eliminationTrace(k + 1, n)
    ELSE <<>>

\* the step that starts the back substitution, then one step per i = n-1 down to 0
substitutionTrace(n) ==
    <<startingBackSubstitution>> \o seq([j \in 1..n |-> solving(n - j)])

(* C19 as stated: the trace of solveGaussElimination is, in order and with  *)
(* nothing else in it, for each pivot index k = 0..n-1 one 'pivot selected' *)
(* step with cells {(k,k)} followed by one 'eliminating row i' step with    *)
(* rows {i,k} and cells {(i,k)} for each i = k+1..n-1 in increasing i; then *)
(* one 'starting back substitution' step; then one step per i = n-1 down to *)
(* 0 with rows {i}.                                                         *)
C19_TraceOrder ==
    (pc = "returned" /\ call.method = "gauss") =>
        traceShape = eliminationTrace(0, order) \o substitutionTrace(order)

(* C19 amended: the trace of solveGaussElimination is, in order and with    *)
(* nothing else in it, one opening step that names the method and           *)
(* highlights nothing; then for each pivot index k = 0..n-1 one 'pivot      *)
(* selected' step with cells {(k,k)} followed by one 'eliminating row i'    *)
(* step with rows {i,k} and cells {(i,k)} for each i = k+1..n-1 in          *)
(* increasing i; then one 'starting back substitution' step; then one step  *)
(* per i = n-1 down to 0 with rows {i}.                                     *)
C19_TraceOrderAfterHeader ==
    (pc = "returned" /\ call.method = "gauss") =>
        traceShape = <<methodHeader>> \o eliminationTrace(0, order)
                                      \o substitutionTrace(order)

\* Gauss elimination has returned from a 3 x 3 system: 11 steps, of which
\* the third and the fourth eliminate rows 1 and 2 with the first pivot
C19_Witness ==
    /\ pc = "returned"
    /\ call.method = "gauss"
    /\ order = 3
    /\ Len(result.steps) = 11
    /\ result.steps[3].description = [kind |-> "eliminate", i |-> 1, k |-> 0]
    /\ result.steps[4].description = [kind |-> "eliminate", i |-> 2, k |-> 0]


\* the local state of the pivoting solver called, at the entry of stage k
stageEntry(k) ==
    LET s0 == enterDirect(callHeap, order + 1, order + 2)
    IN  IF call.method = "pivoting"
        THEN pivotingBefore(pushStep(s0, [kind |-> "start"], noHighlights), 0, k)
        ELSE jordanBefore(s0, 0, k)

\* |x| >= |y|
atLeastAbs(x, y) == Gt(Abs(x), Abs(y)) \/ NumEq(Abs(x), Abs(y))

\* p is the smallest row index in k..n-1 whose |M[i][k]| is maximal
firstLargest(M, k, p) ==
    /\ p \in k..(Len(M) - 1)
    /\ \A i \in k..(Len(M) - 1) : atLeastAbs(M[p + 1][k + 1], M[i + 1][k + 1])
    /\ \A i \in k..(p - 1) : Lt(Abs(M[i + 1][k + 1]), Abs(M[p + 1][k + 1]))

\* |M[k][k]| >= |M[i][k]| for all i > k
dominant(M, k) ==
    \A i \in (k + 1)..(Len(M) - 1) : atLeastAbs(M[k + 1][k + 1], M[i + 1][k + 1])

\* no entry of column k in the rows k..n-1 is NaN
numbersInColumn(M, k) == \A i \in k..(Len(M) - 1) : ~IsNaN(M[i + 1][k + 1])

\* the sequence s with its entries k and p exchanged
exchanged(s, k, p) == [s EXCEPT ![k + 1] = s[p + 1], ![p + 1] = s[k + 1]]

swapRecorded(k, p) ==
    [description |-> [kind |-> "swap", k |-> k, pivotRow |-> p],
     rows |-> {k, p}, cells |-> {}]

\* stage k of the call: the pivot row chosen, A and b when the stage is
\* entered and after the selection, and the steps the selection recorded
selectionAt(k) ==
    LET before == stageEntry(k)
        after == selectPivot(before, k)
    IN  [pivotRow |-> findPivotRow(before.heap, before.A, k, k + 1, k),
         A |-> matrixOf(before.heap, before.A),
         b |-> vectorOf(before.heap, before.b),
         swappedA |-> matrixOf(after.heap, after.A),
         swappedb |-> vectorOf(after.heap, after.b),
         from |-> Len(before.steps),
         recorded |-> seq([s \in 1..(Len(after.steps) - Len(before.steps)) |->
                             LET step == after.steps[Len(before.steps) + s]
                             IN  [shape |-> shapeOf(step),
                                  contents |-> stepContents(after.heap, step)]])]

\* rows k and pivotRow of A and entries k and pivotRow of b are exchanged and
\* a swap step is recorded just before the pivot step, if and only if
\* pivotRow # k; the steps hold A and b as the selection left them, and are
\* the steps of the returned trace at that place
swapsWhenNeeded(k, sel) ==
    /\ sel.swappedA = exchanged(sel.A, k, sel.pivotRow)
    /\ sel.swappedb = exchanged(sel.b, k, sel.pivotRow)
    /\ seq([s \in 1..Len(sel.recorded) |-> sel.recorded[s].shape])
           = IF sel.pivotRow # k
             THEN <<swapRecorded(k, sel.pivotRow), pivotSelected(k)>>
             ELSE <<pivotSelected(k)>>
    /\ \A s \in 1..Len(sel.recorded) :
           /\ sel.recorded[s].contents = [matrix |-> sel.swappedA, vector |-> sel.swappedb]
           /\ sel.from + s <= Len(result.steps)
           /\ shapeOf(result.steps[sel.from + s]) = sel.recorded[s].shape
           /\ stepContents(heap, result.steps[sel.from + s]) = sel.recorded[s].contents

\* the row chosen is the first of the largest, and the pivot dominates its column
largestChosen(k, sel) ==
    /\ firstLargest(sel.A, k, sel.pivotRow)
    /\ dominant(sel.swappedA, k)

pivotingCall == pc = "returned" /\ call.method \in {"pivoting", "gaussJordan"}

(* C20 as stated: at every stage k of solveGaussEliminationWithPivoting     *)
(* and solveGaussJordan the chosen pivotRow is the smallest row index in    *)
(* k..n-1 whose |A[i][k]| is maximal; rows k and pivotRow of A and entries  *)
(* k and pivotRow of b are swapped, and one 'swap' step with rows           *)
(* {k, pivotRow} is recorded immediately before the 'pivot selected' step,  *)
(* if and only if pivotRow # k; after the swap |A[k][k]| >= |A[i][k]| for   *)
(* all i > k.                                                               *)
C20_PivotSelection ==
    pivotingCall =>
        \A k \in 0..(order - 1) :
            /\ swapsWhenNeeded(k, selectionAt(k))
            /\ largestChosen(k, selectionAt(k))

(* C20 amended: as stated, but the chosen pivotRow is the first row of      *)
(* largest |A[i][k]|, and |A[k][k]| >= |A[i][k]| for all i > k after the    *)
(* swap, at the stages k at which no A[i][k], i = k..n-1, is NaN.           *)
C20_PivotSelectionAmongNumbers ==
    pivotingCall =>
        \A k \in 0..(order - 1) :
            /\ swapsWhenNeeded(k, selectionAt(k))
            /\ numbersInColumn(selectionAt(k).A, k) => largestChosen(k, selectionAt(k))

\* Gauss-Jordan has returned a finite solution of a 3 x 3 system after
\* exchanging rows 0 and 1 at stage 0, where row 2 holds an entry as large
C20_Witness ==
    /\ pivotingCall
    /\ call.method = "gaussJordan"
    /\ order = 3
    /\ selectionAt(0).pivotRow = 1
    /\ NumEq(Abs(call.matrix[3][1]), Abs(call.matrix[2][1]))
    /\ result.steps[1].description = [kind |-> "swap", k |-> 0, pivotRow |-> 1]
    /\ result.steps[2].description = [kind |-> "pivot", k |-> 0]
    /\ \A i \in 1..3 : IsFinite(solution[i])


directCall == pc = "returned" /\ call.method \in DirectMethods

\* the steps that record the elimination of a row
eliminationSteps ==
    {s \in 1..Len(result.steps) : result.steps[s].description.kind = "eliminate"}

\* the factor of the elimination recorded in step s, from what the step holds:
\* A[i][k] / A[k][k] in the two Gauss eliminations, A[i][k] in Gauss-Jordan,
\* whose pivot row is normalised
factorOf(s) ==
    LET d == result.steps[s].description
        M == matrixOf(heap, result.steps[s].matrix)
    IN  IF call.method = "gaussJordan" THEN M[d.i + 1][d.k + 1]
        ELSE Div(M[d.i + 1][d.k + 1], M[d.k + 1][d.k + 1])

\* what step s holds with row i updated:
\* A[i][j] -= factor * A[k][j] for j = k..n-1,  b[i] -= factor * b[k]
updated(s) ==
    LET d == result.steps[s].description
        M == matrixOf(heap, result.steps[s].matrix)
        c == vectorOf(heap, result.steps[s].vector)
    IN  [matrix |-> [M EXCEPT ![d.i + 1] =
                        seq([j \in 1..Len(M) |->
                               IF j - 1 >= d.k
                               THEN Sub(M[d.i + 1][j], Mul(factorOf(s), M[d.k + 1][j]))
                               ELSE M[d.i + 1][j]])],
         vector |-> [c EXCEPT ![d.i + 1] = Sub(c[d.i + 1], Mul(factorOf(s), c[d.k + 1]))]]

\* what step s holds; of a swap step, what it holds with its swap undone
beforeSwap(s) ==
    LET d == result.steps[s].description
        held == stepContents(heap, result.steps[s])
    IN  IF d.kind = "swap"
        THEN [matrix |-> exchanged(held.matrix, d.k, d.pivotRow),
              vector |-> exchanged(held.vector, d.k, d.pivotRow)]
        ELSE held

\* the row eliminated in step s is not yet updated in what the step holds:
\* the step before holds the same, unless its own update came in between
notYetUpdated(s) ==
    s > 1 =>
        LET d == result.steps[s].description
            M == matrixOf(heap, result.steps[s].matrix)
            P == IF s - 1 \in eliminationSteps THEN updated(s - 1).matrix
                 ELSE matrixOf(heap, result.steps[s - 1].matrix)
        IN  M[d.i + 1] = P[d.i + 1]

(* C21 as stated: the matrix and vector stored in every 'eliminating row   *)
(* i' step of a direct solver are the working state before row i is        *)
(* updated, and the update A[i][j] -= factor*A[k][j] for j = k..n-1 with    *)
(* b[i] -= factor*b[k] shows in the next recorded step; rows other than i   *)
(* are identical in the two consecutive steps.                              *)
C21_RecordBeforeMutate ==
    directCall =>
        \A s \in eliminationSteps :
            /\ s < Len(result.steps)
            /\ notYetUpdated(s)
            /\ stepContents(heap, result.steps[s + 1]) = updated(s)

(* C21 amended: as stated, where the next recorded step is not a 'swap'    *)
(* step; where it is one, the next step holds the update of row i, and the  *)
(* other rows unchanged, with the rows and entries it names exchanged.      *)
C21_RecordBeforeMutateOrSwap ==
    directCall =>
        \A s \in eliminationSteps :
            /\ s < Len(result.steps)
            /\ notYetUpdated(s)
            /\ beforeSwap(s + 1) = updated(s)

\* the pivoting solver has returned a finite solution of a 3 x 3 system; the
\* step after the last elimination of column 0 is the swap of rows 1 and 2,
\* and that elimination changed row 2
C21_Witness ==
    /\ directCall
    /\ call.method = "pivoting"
    /\ order = 3
    /\ \E s \in eliminationSteps :
           /\ result.steps[s].description = [kind |-> "eliminate", i |-> 2, k |-> 0]
           /\ result.steps[s + 1].description = [kind |-> "swap", k |-> 1, pivotRow |-> 2]
           /\ updated(s).matrix # matrixOf(heap, result.steps[s].matrix)
    /\ \A i \in 1..3 : IsFinite(solution[i])


(* C22: for every input the method compareAllMethods recommends            *)
(* (bestMethod) is the first element of getRanking(allMetrics), the row the *)
(* ranked table marks as recommended.                                       *)
C22_RecommendationTopsRanking ==
    pc = "ranked" => ranking[1].key = comparison.bestMethod


C24_IterativeBestConverged ==
    pc \in {"compared", "ranked"} =>
        /\ comparison.bestMethod \in IterativeMethods =>
               /\ comparison.results[comparison.bestMethod].converged
               /\ comparison.allMetrics[comparison.bestMethod].converged
        /\ comparison.reason.text \notin {"didNotConverge", "unable"}

\* the view shows a comparison that recommends Jacobi, converged;
\* Gauss-Seidel, which would score as high by its steps, did not converge
C24_Witness ==
    /\ pc = "ranked"
    /\ comparison.bestMethod = "jacobi"
    /\ comparison.results.jacobi.converged
    /\ ~comparison.results.seidel.converged
    /\ Len(comparison.results.seidel.steps) = Len(comparison.results.jacobi.steps)
    /\ comparison.reason.text = "converged"


\* the row swaps performed, each of which records one step
swapSteps == {s \in 1..Len(result.steps) : result.steps[s].description.kind = "swap"}

\* the length of every Gauss elimination trace of an n x n system: the opening
\* step, n pivot steps, n(n-1)/2 eliminations, the start of the back
\* substitution and its n steps
gaussLength(n) == 1 + n + (n * (n - 1)) \div 2 + 1 + n

lastIndex == Len(steps.steps) - 1

(* C26: whenever a trace is loaded, 0 <= currentStepIndex <=               *)
(* steps.steps.length - 1, after any sequence of user actions (solve,       *)
(* restart, step back, step forward, play/pause, speed change, edits of     *)
(* matrix, vector, size and method) and timer ticks.                        *)
C26_IndexInRange ==
    loaded =>
        /\ 0 <= currentStepIndex
        /\ currentStepIndex <= lastIndex
        /\ currentStepIndex + 1 \in DOMAIN steps.steps

\* a Jacobi trace is displayed at its last step, the playback stopped and
\* set to the fast speed
C26_Witness ==
    /\ loaded
    /\ method = "jacobi"
    /\ lastIndex > 1
    /\ currentStepIndex = lastIndex
    /\ ~isPlaying
    /\ speed # defaultSpeed

\* a tick of the timer advances by one below the last index; at the last
\* index it leaves the index and stops the playback
tickAdvancesOrStops ==
    Tick =>
        /\ isPlaying /\ loaded
        /\ IF currentStepIndex < lastIndex
           THEN currentStepIndex' = currentStepIndex + 1 /\ isPlaying'
           ELSE currentStepIndex' = currentStepIndex /\ ~isPlaying'
        /\ steps' = steps

(* C27: while isPlaying is true and a trace is loaded, each timer tick     *)
(* advances currentStepIndex by exactly one as long as it is below the last *)
(* index; a tick at the last index leaves currentStepIndex unchanged and    *)
(* sets isPlaying to false; with no further user action, playback           *)
(* eventually stops with currentStepIndex = steps.steps.length - 1.         *)
C27_PlaybackStops ==
    /\ [][tickAdvancesOrStops]_vars
    /\ (isPlaying /\ loaded) ~> (~isPlaying /\ loaded /\ currentStepIndex = lastIndex)

\* the playback runs, two steps before the end of a trace of Gauss-Jordan
C27_Witness ==
    /\ isPlaying
    /\ interval.active
    /\ method = "gauss-jordan"
    /\ currentStepIndex = lastIndex - 2
    /\ currentStepIndex > 0

\* the system and the method the App holds
current ==
    [matrix |-> matrixOf(heap, matrix), vector |-> vectorOf(heap, vector),
     method |-> method]

\* the result of the solver named, called on the system the App holds
solved(name) ==
    LET h == collect(heap, matrix, vector)
        A == Len(heap[matrix]) + 1
        b == Len(heap[matrix]) + 2
        r == CASE name = "gauss" -> solveGaussElimination(h, A, b)
               [] name = "pivoting" -> solveGaussEliminationWithPivoting(h, A, b)
               [] name = "gauss-jordan" -> solveGaussJordan(h, A, b)
               [] name = "jacobi" -> solveJacobi(h, A, b, defaultTolerance, defaultMaxIter)
               [] name = "seidel" -> solveGaussSeidel(h, A, b, defaultTolerance, defaultMaxIter)
    IN  deep(r.heap, r.value)

\* a trace displayed is that of the method selected on the current system
displayedIsCurrent == loaded => deep(heap, steps) = solved(method)

\* a change of the matrix, the vector, the size or the method resets the solver
changeResets ==
    current' # current =>
        /\ steps' = noResult
        /\ currentStepIndex' = 0
        /\ ~isPlaying'

\* a trace newly loaded is displayed from its first step, the playback stopped
loadsAtStart ==
    (steps' # steps /\ steps'.type # "none") =>
        /\ currentStepIndex' = 0
        /\ ~isPlaying'
        /\ current' = current

(* C28: every change of the matrix, the vector, the size or the selected   *)
(* method resets the solver state (steps = null, currentStepIndex = 0,      *)
(* isPlaying = false); handleSolve loads the result of exactly the solver   *)
(* selected by method for the current matrix and vector, with               *)
(* currentStepIndex = 0; whenever a trace is displayed it was computed from *)
(* the current matrix, vector and method.                                   *)
C28_EditsDiscardTrace ==
    /\ []displayedIsCurrent
    /\ [][changeResets /\ loadsAtStart]_vars

\* a Gauss-Seidel trace of an edited system is displayed past its first step
C28_Witness ==
    /\ loaded
    /\ method = "seidel"
    /\ current.matrix # matrixOf(systemHeap(exampleSystem.M, exampleSystem.b), 4)
    /\ Len(current.matrix) = 3
    /\ ~IsZero(current.vector[1])
    /\ currentStepIndex > 0

=============================================================================
